---- MODULE Spec2Model ----
(***************************************************************************)
(* Verification model of the AI mental-health coach: the crisis detector  *)
(* (services/crisis_detection.py) and the conversation memory service     *)
(* (services/rag/conversation_memory.py).  Text is modelled as strings,   *)
(* which TLC treats as sequences of characters (Len, SubSeq, Tail, \o).   *)
(***************************************************************************)
EXTENDS Integers, Sequences, FiniteSets, Bags, TLC

VARIABLES
    detector,   \* the CrisisDetector instance: its two injected tables
    call,       \* arguments of the detect_crisis call under analysis
    outcome,    \* what that call returned (Null before it ran)
    db,         \* the database: its conversations and messages tables
    services,   \* the ConversationMemoryService instances: user and vectorizer
    calls,      \* the finished calls on the memory service, in order
    budget,     \* how many more calls the specification allows
    active_services,  \* the voice services of voice.py, by user
    clock,      \* datetime.utcnow(), in hours
    threads     \* the requests in the worker threads, each with its locals

vars == <<detector, call, outcome, db, services, calls, budget,
          active_services, clock, threads>>

----------------------------------------------------------------------------
(* Optional values: Python's None versus a present value.                  *)

Null == [some |-> FALSE]

Some(v) == [some |-> TRUE, val |-> v]

----------------------------------------------------------------------------
(* Python string primitives.                                               *)

\* `k in s` for two strings: substring containment.
Contains(s, k) ==
    \E i \in 1..(Len(s) - Len(k) + 1) : SubSeq(s, i, i + Len(k) - 1) = k

UpperCase ==
    <<"A","B","C","D","E","F","G","H","I","J","K","L","M",
      "N","O","P","Q","R","S","T","U","V","W","X","Y","Z">>

LowerCase ==
    <<"a","b","c","d","e","f","g","h","i","j","k","l","m",
      "n","o","p","q","r","s","t","u","v","w","x","y","z">>

LowerChar(c) ==
    IF \E i \in DOMAIN UpperCase : UpperCase[i] = c
    THEN LowerCase[CHOOSE i \in DOMAIN UpperCase : UpperCase[i] = c]
    ELSE c

\* str.lower(), a half of the string at a time
RECURSIVE Lower(_)
Lower(s) ==
    IF Len(s) = 0 THEN ""
    ELSE IF Len(s) = 1 THEN LowerChar(s)
    ELSE Lower(SubSeq(s, 1, Len(s) \div 2))
         \o Lower(SubSeq(s, Len(s) \div 2 + 1, Len(s)))

\* sep.join(items)
RECURSIVE Join(_, _)
Join(sep, items) ==
    IF Len(items) = 0 THEN ""
    ELSE IF Len(items) = 1 THEN items[1]
    ELSE items[1] \o sep \o Join(sep, Tail(items))

\* items[-n:] for n > 0
LastN(items, n) ==
    IF Len(items) <= n THEN items ELSE SubSeq(items, Len(items) - n + 1, Len(items))

\* x in list
InSeq(x, list) == \E i \in DOMAIN list : list[i] = x

\* dict.get(key, default) on a table kept in insertion order
RECURSIVE TableGet(_, _, _)
TableGet(table, key, default) ==
    IF Len(table) = 0 THEN default
    ELSE IF table[1].category = key THEN table[1].resources
    ELSE TableGet(Tail(table), key, default)

----------------------------------------------------------------------------
(* Module-level tables of crisis_detection.py.                             *)

CRISIS_KEYWORDS ==
  <<
    [category |-> "suicide", keywords |-> <<
       "suicide", "kill myself", "end my life", "take my own life",
       "no reason to live", "better off dead", "can't go on", "don't want to be alive",
       "want to die", "die", "dying", "death", "fatal", "obituary", "sleeping forever">>],
    [category |-> "self_harm", keywords |-> <<
       "cut myself", "cutting myself", "self-harm", "self harm", "hurt myself",
       "injure myself", "harm myself", "self-injury", "self injury", "hurting myself",
       "injuring myself", "harming myself", "self-mutilation", "self mutilation",
       "burn myself", "burning myself", "punish myself", "punishing myself">>],
    [category |-> "severe_depression", keywords |-> <<
       "hopeless", "worthless", "empty", "can't feel anything", "severe depression",
       "deeply depressed", "no purpose", "burden to others", "nothing matters",
       "pointless", "helpless", "trapped", "desperate", "miserable", "unbearable">>],
    [category |-> "severe_anxiety", keywords |-> <<
       "panic attack", "can't breathe", "heart racing", "terrified", "constant worry",
       "overwhelming anxiety", "paralyzed with fear", "can't control thoughts",
       "extreme worry", "catastrophic", "doom", "impending doom", "terrifying">>],
    [category |-> "substance_abuse", keywords |-> <<
       "overdose", "alcohol problem", "drug problem", "addiction", "substance abuse",
       "drinking too much", "can't stop using", "withdrawal", "relapse",
       "too many pills", "using again", "binge drinking", "blackout", "drunk", "high">>],
    [category |-> "domestic_violence", keywords |-> <<
       "abusive relationship", "domestic violence", "partner hurts me",
       "afraid of partner", "threatened me", "physical abuse", "emotional abuse",
       "controlling partner", "violent partner", "unsafe at home", "partner hits",
       "intimate partner violence">>],
    [category |-> "child_abuse", keywords |-> <<
       "child abuse", "abused as a child", "molested", "sexually abused",
       "hurt a child", "child in danger", "child neglect", "harm to children",
       "underage abuse">>]
  >>

EMERGENCY_RESOURCES ==
  <<
    [category |-> "general", resources |-> <<
       [name |-> "Emergency Services",
        contact |-> "911",
        description |-> "Call for immediate emergency assistance"],
       [name |-> "Crisis Text Line",
        contact |-> "Text HOME to 741741",
        description |-> "24/7 crisis support via text message"]>>],
    [category |-> "suicide", resources |-> <<
       [name |-> "National Suicide Prevention Lifeline",
        contact |-> "1-800-273-8255",
        description |-> "24/7 support for people in suicidal crisis"],
       [name |-> "988 Suicide & Crisis Lifeline",
        contact |-> "988",
        description |-> "Call or text 988 for mental health crisis support"]>>],
    [category |-> "self_harm", resources |-> <<
       [name |-> "Self-harm Crisis Text Line",
        contact |-> "Text HOME to 741741",
        description |-> "24/7 support for self-harm issues"],
       [name |-> "S.A.F.E. Alternatives",
        contact |-> "1-800-DONT-CUT",
        description |-> "Treatment for self-harm behavior"]>>],
    [category |-> "substance_abuse", resources |-> <<
       [name |-> "SAMHSA's National Helpline",
        contact |-> "1-800-662-HELP (4357)",
        description |-> "Treatment referral and information service for substance abuse"],
       [name |-> "Alcoholics Anonymous",
        contact |-> "https://www.aa.org/",
        description |-> "Support for alcohol addiction recovery"]>>],
    [category |-> "domestic_violence", resources |-> <<
       [name |-> "National Domestic Violence Hotline",
        contact |-> "1-800-799-SAFE (7233)",
        description |-> "24/7 support for domestic violence victims"]>>],
    [category |-> "child_abuse", resources |-> <<
       [name |-> "Childhelp National Child Abuse Hotline",
        contact |-> "1-800-4-A-CHILD (1-800-422-4453)",
        description |-> "24/7 hotline for child abuse situations"]>>]
  >>

----------------------------------------------------------------------------
(* Numeric constants of _perform_advanced_analysis.                        *)

HistoryWindow == 5

DensityThreshold == 3

HighScore == 8

----------------------------------------------------------------------------
(* CrisisDetector                                                          *)

\* CrisisDetector.__init__: `x or DEFAULT` falls back on None and on {}.
CrisisDetector(crisis_keywords, emergency_resources) ==
    [crisis_keywords |->
        IF crisis_keywords.some /\ Len(crisis_keywords.val) > 0
        THEN crisis_keywords.val ELSE CRISIS_KEYWORDS,
     emergency_resources |->
        IF emergency_resources.some /\ Len(emergency_resources.val) > 0
        THEN emergency_resources.val ELSE EMERGENCY_RESOURCES]

\* any(keyword in message for keyword in keywords)
AnyKeywordIn(keywords, message) ==
    \E i \in DOMAIN keywords : Contains(message, keywords[i])

\* The keyword loop of detect_crisis: one entry per category, in table
\* order, for the categories with a keyword in the message.
RECURSIVE KeywordScan(_, _)
KeywordScan(table, message) ==
    IF Len(table) = 0 THEN <<>>
    ELSE (IF AnyKeywordIn(table[1].keywords, message)
          THEN <<table[1].category>> ELSE <<>>)
         \o KeywordScan(Tail(table), message)

\* The flexible check without its `elif "harm" in message` branch.
FlexibleSelfHarm_HurtOnly(detected_categories, message) ==
    IF ~InSeq("self_harm", detected_categories)
       /\ Contains(message, "hurt")
       /\ (Contains(message, "myself") \/ Contains(message, "self"))
    THEN Append(detected_categories, "self_harm")
    ELSE detected_categories

\* The flexible self-harm check of detect_crisis.
FlexibleSelfHarm(detected_categories, message) ==
    IF ~InSeq("self_harm", detected_categories)
    THEN IF Contains(message, "hurt")
            /\ (Contains(message, "myself") \/ Contains(message, "self"))
         THEN Append(detected_categories, "self_harm")
         ELSE IF Contains(message, "harm")
                 /\ (Contains(message, "myself") \/ Contains(message, "self"))
         THEN Append(detected_categories, "self_harm")
         ELSE detected_categories
    ELSE detected_categories

\* The merge without its `not in detected_categories` test.
MergeContext_Extend(detected_categories, context_categories) ==
    detected_categories \o context_categories

\* for category in context_categories:
\*     if category not in detected_categories: detected_categories.append(category)
RECURSIVE MergeContext(_, _)
MergeContext(detected_categories, context_categories) ==
    IF Len(context_categories) = 0 THEN detected_categories
    ELSE MergeContext(
            IF InSeq(context_categories[1], detected_categories)
            THEN detected_categories
            ELSE Append(detected_categories, context_categories[1]),
            Tail(context_categories))

\* The regular expressions of _perform_advanced_analysis.  Each is a
\* concatenation of alternations of literals, kept as the list of its groups.
indirect_suicide_patterns ==
    <<[regex |-> "(don't|won't|can't) be (here|around) (anymore|much longer)",
       groups |-> <<{"don't", "won't", "can't"}, {" be "}, {"here", "around"},
                    {" "}, {"anymore", "much longer"}>>],
      [regex |-> "(saying|say) goodbye",
       groups |-> <<{"saying", "say"}, {" goodbye"}>>],
      [regex |-> "(this|it) (is|will be) (my last|the last)",
       groups |-> <<{"this", "it"}, {" "}, {"is", "will be"}, {" "},
                    {"my last", "the last"}>>],
      [regex |-> "(leave|leaving) (this world|everything behind)",
       groups |-> <<{"leave", "leaving"}, {" "},
                    {"this world", "everything behind"}>>],
      [regex |-> "(tired|exhausted|done) (of|with) (living|life|everything)",
       groups |-> <<{"tired", "exhausted", "done"}, {" "}, {"of", "with"}, {" "},
                    {"living", "life", "everything"}>>]>>

\* The strings a pattern matches.
RECURSIVE Language(_)
Language(groups) ==
    IF Len(groups) = 0 THEN {""}
    ELSE {a \o b : a \in groups[1], b \in Language(Tail(groups))}

\* re.search(pattern, message, re.IGNORECASE): the literals of the patterns
\* are lower case, so the search ignores the case of the message.
RegexSearch(pattern, message) ==
    LET lowered == Lower(message)
    IN  \E w \in Language(pattern.groups) : Contains(lowered, w)

concerning_combinations ==
    <<[word_set |-> <<"plan", "die">>, category |-> "suicide"],
      [word_set |-> <<"hurt", "myself", "again">>, category |-> "self_harm"],
      [word_set |-> <<"no", "hope", "future">>, category |-> "severe_depression"],
      [word_set |-> <<"afraid", "home", "hurt">>, category |-> "domestic_violence"]>>

mood_words_neg == <<"worse", "harder", "difficult", "struggling", "can't", "terrible">>

mood_words_pos == <<"better", "improving", "hopeful", "managing", "coping", "good">>

\* _risk_level_order
risk_level_order(level) ==
    IF level = "low" THEN 0
    ELSE IF level = "medium" THEN 1
    ELSE IF level = "high" THEN 2
    ELSE 0

\* max(a, b, key=self._risk_level_order): the first of the largest.
MaxRisk(a, b) == IF risk_level_order(b) > risk_level_order(a) THEN b ELSE a

\* max() of two confidence scores, in hundredths.
MaxScore(a, b) == IF b > a THEN b ELSE a

\* sum(word in text for word in words)
CountIn(words, text) == Cardinality({i \in DOMAIN words : Contains(text, words[i])})

\* [word for category_words in crisis_keywords.values() for word in category_words]
RECURSIVE AllCrisisWords(_)
AllCrisisWords(table) ==
    IF Len(table) = 0 THEN <<>>
    ELSE table[1].keywords \o AllCrisisWords(Tail(table))

\* Rule 1: indirect expressions of suicidal intent.
RECURSIVE IndirectPatternRule(_, _, _)
IndirectPatternRule(a, patterns, message) ==
    IF Len(patterns) = 0 THEN a
    ELSE IndirectPatternRule(
            IF RegexSearch(patterns[1], message)
            THEN [a EXCEPT
                    !.pattern_matches = Append(@, patterns[1].regex),
                    !.context_categories =
                        IF InSeq("suicide", @) THEN @ ELSE Append(@, "suicide")]
            ELSE a,
            Tail(patterns), message)

\* Rule 2: combinations of concerning words.
RECURSIVE CombinationRule(_, _, _)
CombinationRule(a, combinations, message) ==
    IF Len(combinations) = 0 THEN a
    ELSE CombinationRule(
            IF \A i \in DOMAIN combinations[1].word_set :
                    Contains(message, combinations[1].word_set[i])
            THEN [a EXCEPT !.context_categories =
                    IF InSeq(combinations[1].category, @)
                    THEN @ ELSE Append(@, combinations[1].category)]
            ELSE a,
            Tail(combinations), message)

\* `if message_history and len(message_history) > 0`
HistoryGiven(message_history) ==
    message_history.some /\ Len(message_history.val) > 0

\* " ".join(message_history[-5:] + [message])
FullText(message, message_history) ==
    Join(" ", Append(LastN(message_history.val, HistoryWindow), message))

\* Rule 3a: density of crisis keywords over the recent history.
DensityRule(self, a, message, message_history) ==
    IF HistoryGiven(message_history)
       /\ CountIn(AllCrisisWords(self.crisis_keywords),
                  FullText(message, message_history)) >= DensityThreshold
    THEN [a EXCEPT !.risk_level = "medium", !.confidence_score = 60]
    ELSE a

\* Rule 3b: rapid deterioration in mood.
MoodRule(a, message, message_history) ==
    IF HistoryGiven(message_history)
    THEN LET full_text == FullText(message, message_history)
             neg_count == CountIn(mood_words_neg, full_text)
             pos_count == CountIn(mood_words_pos, full_text)
         IN  IF neg_count > 3 /\ neg_count > pos_count * 2
             THEN [a EXCEPT !.risk_level = "medium",
                            !.confidence_score = MaxScore(@, 65)]
             ELSE a
    ELSE a

\* `if user_profile:` a dict that is present and not empty.
ProfileGiven(user_profile) ==
    user_profile.some /\ DOMAIN user_profile.val # {}

\* user_profile.get(key, 0)
ProfileGet(user_profile, key) ==
    IF key \in DOMAIN user_profile.val THEN user_profile.val[key] ELSE Some(0)

\* `score >= 8`: comparing None with an int raises TypeError.
AtLeastHigh(score) ==
    IF ~score.some THEN "TypeError"
    ELSE IF score.val >= HighScore THEN "true" ELSE "false"

\* The comparison without the truthiness test in front of it.
ScoreIsHigh_Unguarded(score) == AtLeastHigh(score)

\* `if score and score >= 8`: `and` does not evaluate the comparison when
\* the score is None or 0.
ScoreIsHigh(score) ==
    IF score.some /\ score.val # 0 THEN AtLeastHigh(score) ELSE "false"

\* Rule 4 without the test for the severe category among the context
\* categories.
ProfileScoreRule_ScoreOnly(a, user_profile, key, category, confidence) ==
    IF a.error # "none" \/ ~ProfileGiven(user_profile) THEN a
    ELSE LET high == ScoreIsHigh(ProfileGet(user_profile, key))
         IN  IF high = "TypeError" THEN [a EXCEPT !.error = "TypeError"]
             ELSE IF high = "true"
             THEN [a EXCEPT !.risk_level = "high",
                            !.confidence_score = MaxScore(@, confidence)]
             ELSE a

\* Rule 4: one of the profile's baseline scores, with its severe category.
ProfileScoreRule(a, user_profile, key, category, confidence) ==
    IF a.error # "none" \/ ~ProfileGiven(user_profile) THEN a
    ELSE LET high == ScoreIsHigh(ProfileGet(user_profile, key))
         IN  IF high = "TypeError" THEN [a EXCEPT !.error = "TypeError"]
             ELSE IF high = "true" /\ InSeq(category, a.context_categories)
             THEN [a EXCEPT !.risk_level = "high",
                            !.confidence_score = MaxScore(@, confidence)]
             ELSE a

\* The floor on the risk level without the floor on the confidence.
ContextFloorRule_RiskOnly(a) ==
    IF a.error = "none" /\ Len(a.context_categories) > 0
    THEN [a EXCEPT !.risk_level = MaxRisk(@, "medium")]
    ELSE a

\* An assignment of "medium" in place of the max.
FloorRisk_Assign(risk_level) == "medium"

\* max(analysis_results["risk_level"], "medium", key=self._risk_level_order)
FloorRisk(risk_level) == MaxRisk(risk_level, "medium")

\* Rule 5: a floor once any context category was found.
ContextFloorRule(a) ==
    IF a.error = "none" /\ Len(a.context_categories) > 0
    THEN [a EXCEPT !.confidence_score = MaxScore(@, 75),
                   !.risk_level = FloorRisk(@)]
    ELSE a

Snapshot(a) == [risk_level |-> a.risk_level, confidence_score |-> a.confidence_score]

\* CrisisDetector._perform_advanced_analysis.  `result` is the dictionary it
\* returns, `error` the exception it raises instead ("none": it returns) and
\* `trace` the values of risk_level and confidence_score after each rule.
perform_advanced_analysis(self, message, message_history, user_profile) ==
    LET a0 == [context_categories |-> <<>>, pattern_matches |-> <<>>,
               risk_level |-> "low", confidence_score |-> 0, error |-> "none"]
        a1 == IndirectPatternRule(a0, indirect_suicide_patterns, message)
        a2 == CombinationRule(a1, concerning_combinations, message)
        a3 == DensityRule(self, a2, message, message_history)
        a4 == MoodRule(a3, message, message_history)
        a5 == ProfileScoreRule(a4, user_profile, "depression_score",
                               "severe_depression", 80)
        a6 == ProfileScoreRule(a5, user_profile, "anxiety_score",
                               "severe_anxiety", 70)
        a7 == ContextFloorRule(a6)
    IN  [result |-> [context_categories |-> a7.context_categories,
                     pattern_matches |-> a7.pattern_matches,
                     risk_level |-> a7.risk_level,
                     confidence_score |-> a7.confidence_score],
         error |-> a7.error,
         trace |-> <<Snapshot(a0), Snapshot(a1), Snapshot(a2), Snapshot(a3),
                     Snapshot(a4), Snapshot(a5), Snapshot(a6), Snapshot(a7)>>]

\* `if resource not in resources: resources.append(resource)`, per resource.
RECURSIVE AddResources(_, _)
AddResources(resources, more) ==
    IF Len(more) = 0 THEN resources
    ELSE AddResources(
            IF InSeq(more[1], resources) THEN resources
            ELSE Append(resources, more[1]),
            Tail(more))

RECURSIVE AddCategoryResources(_, _, _)
AddCategoryResources(self, resources, categories) ==
    IF Len(categories) = 0 THEN resources
    ELSE AddCategoryResources(
            self,
            AddResources(resources,
                         TableGet(self.emergency_resources, categories[1], <<>>)),
            Tail(categories))

\* get_resources with the general resources after those of the categories.
get_resources_GeneralLast(self, categories) ==
    AddResources(AddCategoryResources(self, <<>>, categories),
                 TableGet(self.emergency_resources, "general", <<>>))

\* get_resources without the general resources.
get_resources_CategoriesOnly(self, categories) ==
    AddCategoryResources(self, <<>>, categories)

\* CrisisDetector.get_resources
get_resources(self, categories) ==
    AddCategoryResources(self,
                         TableGet(self.emergency_resources, "general", <<>>),
                         categories)

\* A crisis reported for every analysis of at least medium risk.
detect_crisis_RiskBased(self, message, message_history, user_profile) ==
    LET lowered == Lower(message)
        keyword_categories == KeywordScan(self.crisis_keywords, lowered)
        with_self_harm == FlexibleSelfHarm(keyword_categories, lowered)
        additional == perform_advanced_analysis(self, lowered, message_history,
                                                user_profile)
        detected_categories ==
            MergeContext(with_self_harm, additional.result.context_categories)
    IN  IF additional.error # "none"
        THEN [raised |-> additional.error]
        ELSE [raised |-> "none",
              is_crisis |-> \/ Len(detected_categories) > 0
                            \/ additional.result.risk_level # "low",
              categories |-> detected_categories,
              resources |-> IF Len(detected_categories) = 0 THEN <<>>
                            ELSE get_resources(self, detected_categories),
              analysis |-> additional.result,
              trace |-> additional.trace]

\* CrisisDetector.detect_crisis: the tuple it returns, or the exception.
detect_crisis(self, message, message_history, user_profile) ==
    LET lowered == Lower(message)
        keyword_categories == KeywordScan(self.crisis_keywords, lowered)
        with_self_harm == FlexibleSelfHarm(keyword_categories, lowered)
        additional == perform_advanced_analysis(self, lowered, message_history,
                                                user_profile)
        detected_categories ==
            MergeContext(with_self_harm, additional.result.context_categories)
    IN  IF additional.error # "none"
        THEN [raised |-> additional.error]
        ELSE IF Len(detected_categories) = 0
        THEN [raised |-> "none", is_crisis |-> FALSE, categories |-> <<>>,
              resources |-> <<>>, analysis |-> additional.result,
              trace |-> additional.trace]
        ELSE [raised |-> "none", is_crisis |-> TRUE,
              categories |-> detected_categories,
              resources |-> get_resources(self, detected_categories),
              analysis |-> additional.result,
              trace |-> additional.trace]

----------------------------------------------------------------------------
(* CrisisDetector.get_crisis_response.  The response is built part by     *)
(* part; each part is kept with what it was added for, and the returned   *)
(* string is the concatenation of the texts.                              *)

ResponsePreamble ==
    "I notice you're expressing some thoughts that concern me. "
    \o "Your safety and well-being are important. "
    \o "Remember that there are people who can help, and "
    \o "reaching out to a mental health professional is a good step. "

\* The `if "<category>" in categories:` blocks, in the order of the code.
CategoryResponses ==
    <<[category |-> "suicide", text |->
        "I'm especially concerned about your safety right now. "
        \o "Please consider calling a crisis helpline immediately. "
        \o "They are trained to help with thoughts of suicide and can provide immediate support. "],
      [category |-> "self_harm", text |->
        "Self-harm is a serious concern, and there are healthier ways to cope with difficult feelings. "
        \o "Please reach out to a mental health professional who can help you develop safer coping strategies. "],
      [category |-> "severe_depression", text |->
        "Depression can be overwhelming, but professional support can make a significant difference. "
        \o "A therapist or counselor can help you work through these feelings. "],
      [category |-> "substance_abuse", text |->
        "Substance use concerns can be addressed with the right support. "
        \o "There are specialized resources available to help with recovery and healing. "],
      [category |-> "domestic_violence", text |->
        "Your safety at home is paramount. There are confidential services "
        \o "that can help you create a safety plan and provide support. "],
      [category |-> "child_abuse", text |->
        "Child safety is critically important. There are dedicated services "
        \o "that can provide guidance and support in these situations. "]>>

HighRiskGuidance ==
    "Based on what you've shared, I strongly encourage you to reach out for professional help right away. "
    \o "This is not something you need to handle alone, and immediate support is available. "

MediumRiskGuidance ==
    "It sounds like you're going through a really difficult time. "
    \o "Please consider speaking with a mental health professional soon about what you're experiencing. "

ResourcesIntroduction ==
    "Below I'm providing some resources that might be helpful. "
    \o "Please consider reaching out to one of them for professional support:\n\n"

\* The category blocks that fire for a list of categories.
CategoryParts(categories) ==
    LET fired == SelectSeq(CategoryResponses,
                           LAMBDA r : InSeq(r.category, categories))
    IN  [i \in DOMAIN fired |->
            [kind |-> "category", of |-> fired[i].category, text |-> fired[i].text]]

\* `if analysis_details and "risk_level" in analysis_details:` and the
\* branch on the level; a missing or empty dict adds nothing.
RiskParts(analysis_details) ==
    IF analysis_details.some /\ "risk_level" \in DOMAIN analysis_details.val
    THEN IF analysis_details.val.risk_level = "high"
         THEN <<[kind |-> "guidance", of |-> "high", text |-> HighRiskGuidance]>>
         ELSE IF analysis_details.val.risk_level = "medium"
         THEN <<[kind |-> "guidance", of |-> "medium", text |-> MediumRiskGuidance]>>
         ELSE <<>>
    ELSE <<>>

ResponseParts(categories, analysis_details) ==
    <<[kind |-> "preamble", of |-> "", text |-> ResponsePreamble]>>
    \o CategoryParts(categories)
    \o RiskParts(analysis_details)
    \o <<[kind |-> "introduction", of |-> "", text |-> ResourcesIntroduction]>>

\* get_crisis_response(categories, analysis_details)
get_crisis_response(self, categories, analysis_details) ==
    LET parts == ResponseParts(categories, analysis_details)
    IN  [raised |-> "none",
         response |-> Join("", [i \in DOMAIN parts |-> parts[i].text]),
         parts |-> parts]

----------------------------------------------------------------------------
(* CrisisDetector.get_historical_crisis_indicators                         *)

\* The rate hits / messages is kept as the pair of its terms.
\* `rate >= 0.3`: for the lengths of history handled here the float
\* quotient compares with 0.3 as the exact fraction does.
Persistent_Majority(rate) == 2 * rate.hits >= rate.messages

Persistent(rate) == 10 * rate.hits >= 3 * rate.messages

\* sum(1 for word in all_crisis_words if word in msg.lower()), per message
CrisisWordCounts(self, message_history) ==
    [i \in DOMAIN message_history |->
        CountIn(AllCrisisWords(self.crisis_keywords), Lower(message_history[i]))]

\* all(counts[-i] <= counts[-i+1] for i in range(3, 1, -1)), for a history
\* of at least three messages
IncreasingPattern(counts) ==
    /\ Len(counts) >= 3
    /\ \A i \in {3, 2} :
          counts[Len(counts) + 1 - i] <= counts[Len(counts) + 2 - i]

\* The persistence rate of each category of the keyword table, in the
\* order of the table.
CategoryPersistence(self, message_history) ==
    [c \in DOMAIN self.crisis_keywords |->
        [category |-> self.crisis_keywords[c].category,
         rate |-> [hits |-> Cardinality({i \in DOMAIN message_history :
                                AnyKeywordIn(self.crisis_keywords[c].keywords,
                                             Lower(message_history[i]))}),
                   messages |-> Len(message_history)]]]

\* The return for a history that is not empty.
HistoricalIndicators(increasing_pattern, category_persistence) ==
    LET persistent == SelectSeq(category_persistence, LAMBDA e : Persistent(e.rate))
        persistent_categories == [i \in DOMAIN persistent |-> persistent[i].category]
    IN  [pattern_found |-> increasing_pattern \/ Len(persistent_categories) > 0,
         increasing_pattern |-> increasing_pattern,
         persistent_categories |-> persistent_categories,
         category_persistence |-> category_persistence]

\* get_historical_crisis_indicators(message_history)
get_historical_crisis_indicators(self, message_history) ==
    IF Len(message_history) = 0
    THEN [raised |-> "none", result |-> [pattern_found |-> FALSE]]
    ELSE [raised |-> "none",
          result |-> HistoricalIndicators(
                         IncreasingPattern(CrisisWordCounts(self, message_history)),
                         CategoryPersistence(self, message_history))]

----------------------------------------------------------------------------
(* The database rows the memory service reads.  A database is a record of  *)
(* its tables, each a sequence of rows in insertion order; timestamps are  *)
(* hours since an epoch.                                                   *)

\* datetime.strftime("%Y-%m-%d"): the day a timestamp falls on.
DateOf(timestamp) == timestamp \div 24

\* The stable ascending order of a list of integer keys, as the list of the
\* indices in that order: ORDER BY on rows in insertion order, and
\* numpy.argsort on the short arrays handled here.
ArgSort(keys) ==
    LET Rank(i) == 1 + Cardinality({j \in DOMAIN keys :
                        keys[j] < keys[i] \/ (keys[j] = keys[i] /\ j < i)})
    IN  [r \in DOMAIN keys |-> CHOOSE i \in DOMAIN keys : Rank(i) = r]

\* rows ORDER BY the given keys ASC
OrderBy(rows, keys) ==
    LET order == ArgSort(keys) IN [r \in DOMAIN rows |-> rows[order[r]]]

\* db.query(Conversation).filter(user_id == user).order_by(started_at.asc()).all()
UserConversations(database, user_id) ==
    LET rows == SelectSeq(database.conversations, LAMBDA c : c.user_id = user_id)
    IN  OrderBy(rows, [i \in DOMAIN rows |-> rows[i].started_at])

\* db.query(Message).filter(conversation_id == id).order_by(created_at.asc()).all()
ConversationMessages(database, conversation_id) ==
    LET rows == SelectSeq(database.messages,
                          LAMBDA m : m.conversation_id = conversation_id)
    IN  OrderBy(rows, [i \in DOMAIN rows |-> rows[i].created_at])

----------------------------------------------------------------------------
(* TfidfVectorizer(lowercase=True, stop_words="english", ngram_range=(1,2)) *)
(* and cosine_similarity, in fixed-point arithmetic: idf weights in tenths, *)
(* similarities in thousandths.                                            *)

Digits == <<"0","1","2","3","4","5","6","7","8","9">>

\* \w of the token pattern
WordChar(c) ==
    \/ \E i \in DOMAIN LowerCase : LowerCase[i] = c
    \/ \E i \in DOMAIN UpperCase : UpperCase[i] = c
    \/ \E i \in DOMAIN Digits : Digits[i] = c
    \/ c = "_"

\* The words of the library's English stop list that occur in the texts
\* of this model.
StopWords ==
    {"the", "and", "about", "is", "my", "me", "to", "of", "myself", "again",
     "alone", "are", "at", "be", "been", "being", "below", "but", "call", "can",
     "could", "down", "for", "had", "have", "here", "how", "in", "it", "might",
     "more", "not", "now", "on", "one", "or", "out", "please", "re", "serious",
     "some", "something", "that", "them", "there", "these", "they", "this",
     "through", "together", "via", "well", "what", "who", "with", "would",
     "you", "your"}

\* token_pattern (?u)\b\w\w+\b: the maximal runs of two or more word
\* characters, from where each run starts to where it ends.
Tokenize(text) ==
    LET word == [i \in 1..Len(text) |-> WordChar(SubSeq(text, i, i))]
        positions == [i \in 1..Len(text) |-> i]
        starts == SelectSeq(positions, LAMBDA i : word[i] /\ (i = 1 \/ ~word[i - 1]))
        ends == SelectSeq(positions,
                          LAMBDA i : word[i] /\ (i = Len(text) \/ ~word[i + 1]))
        runs == [k \in DOMAIN starts |-> SubSeq(text, starts[k], ends[k])]
    IN  SelectSeq(runs, LAMBDA token : Len(token) >= 2)

\* The analyzer: lower-case, tokenize, drop stop words, then the unigrams
\* followed by the bigrams of what is left.
Analyze(text) ==
    LET tokens == SelectSeq(Tokenize(Lower(text)), LAMBDA t : t \notin StopWords)
    IN  tokens \o [i \in 1..(Len(tokens) - 1) |-> tokens[i] \o " " \o tokens[i + 1]]

\* round(10 * ln(a / b)) for 1 <= b <= a <= 17, as LnTenths[a][b]
LnTenths ==
    <<<<0, 0, 0, 0, 0, 0, 0, 0, 0, 0, 0, 0, 0, 0, 0, 0, 0>>,
      <<7, 0, 0, 0, 0, 0, 0, 0, 0, 0, 0, 0, 0, 0, 0, 0, 0>>,
      <<11, 4, 0, 0, 0, 0, 0, 0, 0, 0, 0, 0, 0, 0, 0, 0, 0>>,
      <<14, 7, 3, 0, 0, 0, 0, 0, 0, 0, 0, 0, 0, 0, 0, 0, 0>>,
      <<16, 9, 5, 2, 0, 0, 0, 0, 0, 0, 0, 0, 0, 0, 0, 0, 0>>,
      <<18, 11, 7, 4, 2, 0, 0, 0, 0, 0, 0, 0, 0, 0, 0, 0, 0>>,
      <<19, 13, 8, 6, 3, 2, 0, 0, 0, 0, 0, 0, 0, 0, 0, 0, 0>>,
      <<21, 14, 10, 7, 5, 3, 1, 0, 0, 0, 0, 0, 0, 0, 0, 0, 0>>,
      <<22, 15, 11, 8, 6, 4, 3, 1, 0, 0, 0, 0, 0, 0, 0, 0, 0>>,
      <<23, 16, 12, 9, 7, 5, 4, 2, 1, 0, 0, 0, 0, 0, 0, 0, 0>>,
      <<24, 17, 13, 10, 8, 6, 5, 3, 2, 1, 0, 0, 0, 0, 0, 0, 0>>,
      <<25, 18, 14, 11, 9, 7, 5, 4, 3, 2, 1, 0, 0, 0, 0, 0, 0>>,
      <<26, 19, 15, 12, 10, 8, 6, 5, 4, 3, 2, 1, 0, 0, 0, 0, 0>>,
      <<26, 19, 15, 13, 10, 8, 7, 6, 4, 3, 2, 2, 1, 0, 0, 0, 0>>,
      <<27, 20, 16, 13, 11, 9, 8, 6, 5, 4, 3, 2, 1, 1, 0, 0, 0>>,
      <<28, 21, 17, 14, 12, 10, 8, 7, 6, 5, 4, 3, 2, 1, 1, 0, 0>>,
      <<28, 21, 17, 14, 12, 10, 9, 8, 6, 5, 4, 3, 3, 2, 1, 1, 0>>>>

\* smooth idf: ln((1 + n) / (1 + df)) + 1, in tenths
IdfTenths(n_docs, df) == LnTenths[1 + n_docs][1 + df] + 10

TermFrequency(feature, features) ==
    Cardinality({i \in DOMAIN features : features[i] = feature})

\* TfidfVectorizer(min_df=..., max_df=...): nothing fitted yet.  A float
\* parameter is a proportion of the documents (kept in tenths), an integer
\* parameter a number of documents.
Proportion(tenths) == [proportion |-> TRUE, value |-> tenths]
DocumentCount(count) == [proportion |-> FALSE, value |-> count]

TfidfVectorizer(min_df, max_df) ==
    [min_df |-> min_df, max_df |-> max_df,
     fitted |-> FALSE, vocabulary |-> {}, n_docs |-> 0, df |-> <<>>]

\* max_doc_count and min_doc_count, in tenths of a document
DocCountTenths(parameter, n_docs) ==
    IF parameter.proportion THEN parameter.value * n_docs ELSE 10 * parameter.value

Features(analyzed) ==
    UNION {{analyzed[i][j] : j \in DOMAIN analyzed[i]} : i \in DOMAIN analyzed}

DocumentFrequency(feature, analyzed) ==
    Cardinality({i \in DOMAIN analyzed : InSeq(feature, analyzed[i])})

\* Document statistics added onto the statistics of an earlier fit.
FitStatistics_Accumulate(vectorizer, analyzed, vocabulary) ==
    [vectorizer EXCEPT
        !.fitted = TRUE,
        !.vocabulary = vocabulary \cup vectorizer.vocabulary,
        !.n_docs = Len(analyzed) + vectorizer.n_docs,
        !.df = [f \in vocabulary \cup vectorizer.vocabulary |->
                   DocumentFrequency(f, analyzed)
                   + (IF f \in vectorizer.vocabulary THEN vectorizer.df[f] ELSE 0)]]

\* What a fit learns: the vocabulary and the document frequencies of the
\* documents given, replacing whatever an earlier fit had learned.
FitStatistics(vectorizer, analyzed, vocabulary) ==
    [vectorizer EXCEPT
        !.fitted = TRUE,
        !.vocabulary = vocabulary,
        !.n_docs = Len(analyzed),
        !.df = [f \in vocabulary |-> DocumentFrequency(f, analyzed)]]

\* One row of the matrix: term frequency times idf over the fitted
\* vocabulary.  Rows are kept unnormalised; the similarity normalises.
TfidfRow(vectorizer, features) ==
    [f \in vectorizer.vocabulary |->
        TermFrequency(f, features) * IdfTenths(vectorizer.n_docs, vectorizer.df[f])]

\* fit_transform once the analyzer has run over the documents.
\* ValueError when the documents hold no term, when max_df admits fewer
\* documents than min_df, and when no term has a document frequency
\* within the two.
FitAnalyzed(vectorizer, analyzed) ==
    LET max_doc_count == DocCountTenths(vectorizer.max_df, Len(analyzed))
        min_doc_count == DocCountTenths(vectorizer.min_df, Len(analyzed))
        kept == {f \in Features(analyzed) :
                    /\ 10 * DocumentFrequency(f, analyzed) <= max_doc_count
                    /\ 10 * DocumentFrequency(f, analyzed) >= min_doc_count}
        fitted == FitStatistics(vectorizer, analyzed, kept)
    IN  IF Features(analyzed) = {} \/ max_doc_count < min_doc_count \/ kept = {}
        THEN [raised |-> "ValueError", vectorizer |-> vectorizer, vectors |-> <<>>]
        ELSE [raised |-> "none", vectorizer |-> fitted,
              vectors |-> [i \in DOMAIN analyzed |-> TfidfRow(fitted, analyzed[i])]]

\* vectorizer.fit_transform(documents)
fit_transform(vectorizer, documents) ==
    FitAnalyzed(vectorizer, [i \in DOMAIN documents |-> Analyze(documents[i])])

\* vectorizer.transform([text]): NotFittedError before any fit.
transform(vectorizer, text) ==
    IF ~vectorizer.fitted THEN [raised |-> "NotFittedError", vector |-> <<>>]
    ELSE [raised |-> "none", vector |-> TfidfRow(vectorizer, Analyze(text))]

\* The sum of the values of f, none of them negative, over the keys: the
\* size of the bag that holds each key as often as its value.
SumOver(f, keys) ==
    BagCardinality([k \in {k \in keys : f[k] > 0} |-> f[k]])

Dot(a, b) == SumOver([f \in DOMAIN a |-> a[f] * b[f]], DOMAIN a)

\* floor of the square root
RECURSIVE SqrtBetween(_, _, _)
SqrtBetween(low, high, n) ==
    IF low >= high THEN low
    ELSE LET mid == (low + high + 1) \div 2
         IN  IF mid * mid <= n THEN SqrtBetween(mid, high, n)
             ELSE SqrtBetween(low, mid - 1, n)

\* (no root of a 32-bit integer exceeds 46340)
ISqrt(n) == SqrtBetween(0, IF n < 46340 THEN n ELSE 46340, n)

\* cosine_similarity of two rows, in thousandths; 0 for a zero row.
CosineSimilarity(a, b) ==
    LET norms == Dot(a, a) * Dot(b, b)
    IN  IF norms = 0 THEN 0 ELSE (1000 * Dot(a, b)) \div ISqrt(norms)

----------------------------------------------------------------------------
(* ConversationMemoryService                                               *)

ChunkSize == 3
RelevanceFloor == 100
ThemeFloor == 10
TopThemes == 10

\* __init__: the service of one user, with its own unfitted vectorizer.
ConversationMemoryService(user_id) ==
    [user_id |-> user_id,
     vectorizer |-> TfidfVectorizer(Proportion(0), Proportion(10))]

\* Windows that advance by less than their size.
Windows_Overlap(messages) ==
    [w \in 1..((Len(messages) + 1) \div 2) |->
        SubSeq(messages, 2 * (w - 1) + 1,
               IF 2 * (w - 1) + ChunkSize < Len(messages)
               THEN 2 * (w - 1) + ChunkSize ELSE Len(messages))]

\* for i in range(0, len(messages), 3): messages[i:i+3]
Windows(messages) ==
    [w \in 1..((Len(messages) + ChunkSize - 1) \div ChunkSize) |->
        SubSeq(messages, ChunkSize * (w - 1) + 1,
               IF ChunkSize * w < Len(messages)
               THEN ChunkSize * w ELSE Len(messages))]

\* f"{sender}: {msg.content}\n"
ChunkLine(msg) ==
    (IF msg.is_from_user THEN "User" ELSE "Coach") \o ": " \o msg.content \o "\n"

RECURSIVE ChunkText(_)
ChunkText(chunk_messages) ==
    IF Len(chunk_messages) = 0 THEN ""
    ELSE ChunkLine(Head(chunk_messages)) \o ChunkText(Tail(chunk_messages))

ChunkMetadata(conversation, chunk_messages) ==
    [conversation_id |-> conversation.id,
     conversation_title |-> conversation.title,
     is_formal_session |-> conversation.is_formal_session,
     session_number |-> conversation.session_number,
     date |-> DateOf(conversation.started_at),
     first_message_id |-> chunk_messages[1].id,
     last_message_id |-> chunk_messages[Len(chunk_messages)].id]

\* The chunks of one conversation, each with its metadata and, for the
\* properties, the ids of the messages it was built from.
ConversationChunks(database, conversation) ==
    LET windows == Windows(ConversationMessages(database, conversation.id))
    IN  [w \in DOMAIN windows |->
            [text |-> ChunkText(windows[w]),
             metadata |-> ChunkMetadata(conversation, windows[w]),
             message_ids |-> [i \in DOMAIN windows[w] |-> windows[w][i].id]]]

RECURSIVE Concat(_)
Concat(lists) ==
    IF Len(lists) = 0 THEN <<>> ELSE Head(lists) \o Concat(Tail(lists))

\* The return of index_conversations, with the state the service's
\* vectorizer is left in and, for the properties, the message ids.
Indexed(self, entries, fit) ==
    [raised |-> IF Len(entries) = 0 THEN "none" ELSE fit.raised,
     chunks |-> [i \in DOMAIN entries |-> entries[i].text],
     metadata |-> [i \in DOMAIN entries |-> entries[i].metadata],
     vectors |-> IF Len(entries) = 0 THEN <<>> ELSE fit.vectors,
     message_ids |-> [i \in DOMAIN entries |-> entries[i].message_ids],
     vectorizer |-> IF Len(entries) = 0 THEN self.vectorizer ELSE fit.vectorizer]

\* The vectorizer is fitted only when there is a chunk.
IndexChunks(self, entries) ==
    Indexed(self, entries,
            fit_transform(self.vectorizer, [i \in DOMAIN entries |-> entries[i].text]))

AllChunks(database, conversations) ==
    Concat([c \in DOMAIN conversations |->
               ConversationChunks(database, conversations[c])])

\* index_conversations()
index_conversations(self, database) ==
    IndexChunks(self, AllChunks(database, UserConversations(database, self.user_id)))

\* Python's items[-n:]: the last n items for n > 0, every item for n = 0
\* (the slice starts at index -0 = 0), all but the first -n for n < 0.
SliceFromMinus(items, n) ==
    LET start == IF n > 0
                 THEN (IF Len(items) > n THEN Len(items) - n ELSE 0)
                 ELSE (IF -n < Len(items) THEN -n ELSE Len(items))
    IN  SubSeq(items, start + 1, Len(items))

Reverse(items) == [i \in DOMAIN items |-> items[Len(items) + 1 - i]]

\* The test of line 219 replaced by one every chunk passes.
AboveFloor_Always(similarity) == TRUE

\* similarities[idx] > 0.1
AboveFloor(similarity) == similarity > RelevanceFloor

\* Lines 213-226: the top max_results chunks that clear the floor.
TopResults(index, similarities, max_results) ==
    LET top_indices == Reverse(SliceFromMinus(ArgSort(similarities), max_results))
        relevant == SelectSeq(top_indices, LAMBDA idx : AboveFloor(similarities[idx]))
    IN  [r \in DOMAIN relevant |->
            [text |-> index.chunks[relevant[r]],
             metadata |-> index.metadata[relevant[r]],
             similarity_score |-> similarities[relevant[r]]]]

\* Lines 207-226, given the index and the vectorized query.
Ranked(index, query_vector, max_results) ==
    LET similarities == [i \in DOMAIN index.chunks |->
                            CosineSimilarity(query_vector.vector, index.vectors[i])]
    IN  IF query_vector.raised # "none"
        THEN [raised |-> query_vector.raised, value |-> <<>>, similarities |-> <<>>,
              index |-> index, vectorizer |-> index.vectorizer]
        ELSE [raised |-> "none",
              value |-> TopResults(index, similarities, max_results),
              similarities |-> similarities,
              index |-> index, vectorizer |-> index.vectorizer]

\* Lines 203-226, given the index.
Retrieved(index, query, max_results) ==
    IF index.raised # "none"
    THEN [raised |-> index.raised, value |-> <<>>, similarities |-> <<>>,
          index |-> index, vectorizer |-> index.vectorizer]
    ELSE IF Len(index.chunks) = 0
    THEN [raised |-> "none", value |-> <<>>, similarities |-> <<>>,
          index |-> index, vectorizer |-> index.vectorizer]
    ELSE Ranked(index, transform(index.vectorizer, query), max_results)

\* retrieve_relevant_context(query, max_results): the returned list, with
\* the index and the similarities it was drawn from for the properties.
retrieve_relevant_context(self, database, query, max_results) ==
    Retrieved(index_conversations(self, database), query, max_results)

\* str.strip() leaves nothing
IsBlank(text) ==
    \A i \in 1..Len(text) : SubSeq(text, i, i) \in {" ", "\n", "\t"}

\* The characters of a feature name, in code-point order.
CharOrder == " 0123456789_abcdefghijklmnopqrstuvwxyz"

CharRank(c) == CHOOSE i \in 1..Len(CharOrder) : SubSeq(CharOrder, i, i) = c

RECURSIVE StrLess(_, _)
StrLess(a, b) ==
    IF Len(b) = 0 THEN FALSE
    ELSE IF Len(a) = 0 THEN TRUE
    ELSE IF SubSeq(a, 1, 1) # SubSeq(b, 1, 1)
    THEN CharRank(SubSeq(a, 1, 1)) < CharRank(SubSeq(b, 1, 1))
    ELSE StrLess(Tail(a), Tail(b))

\* vectorizer.get_feature_names_out(): the vocabulary in sorted order
get_feature_names_out(vectorizer) ==
    LET Rank(f) == 1 + Cardinality({g \in vectorizer.vocabulary : StrLess(g, f)})
    IN  [r \in 1..Cardinality(vectorizer.vocabulary) |->
            CHOOSE f \in vectorizer.vocabulary : Rank(f) = r]

\* One row under the vectorizer's l2 norm, in thousandths.
Normalized(row) ==
    LET norm == ISqrt(Dot(row, row))
    IN  [f \in DOMAIN row |-> IF norm = 0 THEN 0 ELSE (1000 * row[f]) \div norm]

\* The body of the try block of get_recent_themes once the fit succeeded.
Themes(fit) ==
    LET feature_names == get_feature_names_out(fit.vectorizer)
        scores == Normalized(fit.vectors[1])
        significant == SelectSeq(feature_names, LAMBDA term : scores[term] > ThemeFloor)
        themes == [i \in DOMAIN significant |->
                      [theme |-> significant[i],
                       importance_score |-> scores[significant[i]]]]
        sorted == OrderBy(themes, [i \in DOMAIN themes |-> -themes[i].importance_score])
    IN  SubSeq(sorted, 1, IF Len(sorted) < TopThemes THEN Len(sorted) ELSE TopThemes)

\* A handler that lets every exception of the fit through.
ExceptValueError_Nothing(raised) == FALSE

\* except ValueError:
ExceptValueError(raised) == raised = "ValueError"

\* Lines 381-403: the try block around the fit.
TryThemes(fit) ==
    IF fit.raised = "none"
    THEN [raised |-> "none", value |-> Themes(fit), fit |-> "none"]
    ELSE IF ExceptValueError(fit.raised)
    THEN [raised |-> "none", value |-> <<>>, fit |-> fit.raised]
    ELSE [raised |-> fit.raised, value |-> <<>>, fit |-> fit.raised]

\* Lines 364-403, given the messages of the recent conversations.
ThemesOfMessages(user_messages, min_occurrences) ==
    IF IsBlank(user_messages)
    THEN [raised |-> "none", value |-> <<>>, fit |-> "not run"]
    ELSE TryThemes(fit_transform(
             TfidfVectorizer(DocumentCount(min_occurrences), Proportion(7)),
             <<user_messages>>))

\* get_recent_themes(days, min_occurrences), called when the clock reads
\* now.  The vectorizer is local to the call.
get_recent_themes(self, database, now, days, min_occurrences) ==
    LET cutoff_date == now - 24 * days
        recent_conversations ==
            SelectSeq(database.conversations,
                      LAMBDA c : c.user_id = self.user_id /\ c.started_at >= cutoff_date)
        conversation_ids == {recent_conversations[i].id : i \in DOMAIN recent_conversations}
        rows == SelectSeq(database.messages,
                          LAMBDA m : m.conversation_id \in conversation_ids)
        messages == OrderBy(rows, [i \in DOMAIN rows |-> rows[i].created_at])
        from_user == SelectSeq(messages, LAMBDA m : m.is_from_user)
    IN  IF conversation_ids = {}
        THEN [raised |-> "none", value |-> <<>>, fit |-> "not run"]
        ELSE ThemesOfMessages(
                 Join(" ", [i \in DOMAIN from_user |-> from_user[i].content]),
                 min_occurrences)

----------------------------------------------------------------------------
(* Inputs of the crisis specification.                                     *)

MaxFragments == 2

\* Pieces of user text: harm words and self references in mixed case, a
\* verbatim keyword and the words of the combination rules.
Fragments ==
    {"I might HURT ", "harm ", "mySelf ", "again ", "plan to die ",
     "no hope for the future "}

RECURSIVE Texts(_)
Texts(n) ==
    IF n = 0 THEN {""}
    ELSE Texts(n - 1) \cup {t \o f : t \in Texts(n - 1), f \in Fragments}

\* Whole messages: the scenarios of the detector's tests, and an indirect
\* expression of suicidal intent.
ScenarioMessages ==
    {"I want to kill myself. I don't see any reason to live anymore.",
     "I've been feeling a bit down today, but I'm managing okay.",
     "I might hurt myself tonight",
     "This contains test_keyword that should trigger custom resources.",
     "I am Saying goodbye"}

Messages == Texts(MaxFragments) \cup ScenarioMessages

Histories ==
    {Null,
     Some(<<>>),
     Some(<<"I feel hopeless", "trapped and miserable">>),
     Some(<<"so HOPELESS", "Trapped", "and Miserable">>),
     Some(<<"hopeless", "hopeless again", "still hopeless">>),
     Some(<<"I want to die", "things got worse", "it is harder", "so difficult",
            "struggling", "I can't", "terrible">>)}

Profiles ==
    {Null,
     Some(<<>>),
     Some([depression_score |-> Some(9)]),
     Some([depression_score |-> Null, anxiety_score |-> Some(8)])}

\* tests/services/test_crisis_detection.py: test_custom_emergency_resources
custom_keywords ==
    <<[category |-> "custom_category", keywords |-> <<"test_keyword">>]>>

custom_resources ==
    <<[category |-> "custom_category", resources |-> <<
        [name |-> "Custom Helpline",
         contact |-> "999-999-9999",
         description |-> "A custom helpline"]>>],
      [category |-> "general", resources |-> <<
        [name |-> "General Help",
         contact |-> "111-111-1111",
         description |-> "General help resource"]>>]>>

\* An injected resource table without a "general" entry.
category_only_resources ==
    SelectSeq(EMERGENCY_RESOURCES, LAMBDA e : e.category # "general")

Detectors ==
    {CrisisDetector(Null, Null),
     CrisisDetector(Some(<<>>), Some(<<>>)),
     CrisisDetector(Some(custom_keywords), Some(custom_resources)),
     CrisisDetector(Null, Some(category_only_resources))}

\* The clock reading during the calls, in hours; rows are stamped
\* relative to it.
utcnow == 2424

----------------------------------------------------------------------------
(* Specification of the crisis detector: one detect_crisis call on a       *)
(* detector built with any of the injected tables.                         *)

InitCrisis ==
    /\ detector \in Detectors
    /\ call = Null
    /\ outcome = Null
    /\ db = [conversations |-> <<>>, messages |-> <<>>]
    /\ services = <<>>
    /\ calls = <<>>
    /\ budget = 0
    /\ active_services = <<>>
    /\ threads = <<>>
    /\ clock = utcnow

DetectCrisis ==
    /\ call = Null
    /\ \E message \in Messages, message_history \in Histories,
          user_profile \in Profiles :
          /\ call' = Some([message |-> message,
                           message_history |-> message_history,
                           user_profile |-> user_profile])
          /\ outcome' = Some(detect_crisis(detector, message, message_history,
                                           user_profile))
    /\ UNCHANGED <<detector, db, services, calls, budget, active_services, clock, threads>>

NextCrisis == DetectCrisis

SpecCrisis == InitCrisis /\ [][NextCrisis]_vars

----------------------------------------------------------------------------
(* The same message and history analysed twice, under two profiles that    *)
(* differ in the anxiety score alone.                                      *)

\* Messages with and without keywords of severe anxiety, and one of the
\* combination that gives severe depression.
ProfileMessages ==
    ScenarioMessages
    \cup {"I had a panic attack, a feeling of doom", "no hope for the future ",
           "terrified and hopeless", ""}

\* The anxiety score of a profile: absent (Null), or present with the
\* value null or a number.
AnxietyScores ==
    {Null, Some(Null), Some(Some(0)), Some(Some(3)), Some(Some(8)), Some(Some(10))}

\* Profiles but for the anxiety score.
ScorelessProfiles ==
    {<<>>, [depression_score |-> Some(9)], [depression_score |-> Some(2)]}

\* The dict with anxiety_score set, or left out.
WithAnxiety(profile, score) ==
    IF ~score.some THEN profile
    ELSE [k \in (DOMAIN profile) \cup {"anxiety_score"} |->
             IF k = "anxiety_score" THEN score.val ELSE profile[k]]

\* One analysis, recorded with its inputs.
Analysed(message, message_history, profile, score) ==
    [message |-> message, message_history |-> message_history,
     profile |-> profile, anxiety_score |-> score,
     result |-> detect_crisis(detector, message, message_history,
                              Some(WithAnxiety(profile, score)))]

DetectWithProfile ==
    /\ calls = <<>>
    /\ \E message \in ProfileMessages, message_history \in Histories,
          profile \in ScorelessProfiles, score \in AnxietyScores :
          calls' = <<Analysed(message, message_history, profile, score)>>
    /\ UNCHANGED <<detector, call, outcome, db, services, budget,
                   active_services, clock, threads>>

\* The first call again, with another anxiety score in the profile.
DetectWithOtherAnxiety ==
    /\ Len(calls) = 1
    /\ \E score \in AnxietyScores \ {calls[1].anxiety_score} :
          calls' = Append(calls,
                     Analysed(calls[1].message, calls[1].message_history,
                              calls[1].profile, score))
    /\ UNCHANGED <<detector, call, outcome, db, services, budget,
                   active_services, clock, threads>>

InitProfiles ==
    /\ detector \in Detectors
    /\ call = Null
    /\ outcome = Null
    /\ db = [conversations |-> <<>>, messages |-> <<>>]
    /\ services = <<>>
    /\ calls = <<>>
    /\ budget = 0
    /\ active_services = <<>>
    /\ threads = <<>>
    /\ clock = utcnow

NextProfiles == DetectWithProfile \/ DetectWithOtherAnxiety

SpecProfiles == InitProfiles /\ [][NextProfiles]_vars

----------------------------------------------------------------------------
(* Inputs of the memory specifications: stored histories of two users.     *)

MaxMessages == 4
MaxQuiet == 2
MaxCalls == 3
MaxRepeatMessages == 2

\* Conversation rows in insertion order.  The second was started earlier
\* than the first (rows written with explicit timestamps, as the data
\* scripts do), so it sorts first; the third belongs to another user.
ConversationRows ==
    <<[id |-> 1, user_id |-> 1, title |-> "Session 1", is_formal_session |-> TRUE,
       session_number |-> Some(1), started_at |-> 2400],
      [id |-> 2, user_id |-> 1, title |-> "Check-in", is_formal_session |-> FALSE,
       session_number |-> Null, started_at |-> 1200],
      [id |-> 3, user_id |-> 2, title |-> "Session 1", is_formal_session |-> TRUE,
       session_number |-> Some(1), started_at |-> 2410]>>

\* What a message row can be, but for its id.  created_at is the hour the
\* row was written, or an explicit earlier stamp.
Posts ==
    <<[conversation_id |-> 1, is_from_user |-> TRUE,
       content |-> "Anxious about work", backdated |-> FALSE],
      [conversation_id |-> 1, is_from_user |-> FALSE,
       content |-> "Sleep and work", backdated |-> TRUE],
      [conversation_id |-> 2, is_from_user |-> TRUE,
       content |-> "The and", backdated |-> FALSE],
      [conversation_id |-> 3, is_from_user |-> TRUE,
       content |-> "work", backdated |-> FALSE]>>

\* Contents that hold no term.
QuietContents == <<"", " ", "The and">>

StartedAt(conversation_id) ==
    LET c == CHOOSE i \in DOMAIN ConversationRows :
                 ConversationRows[i].id = conversation_id
    IN  ConversationRows[c].started_at

\* The i-th row of the messages table, holding the given post.
MessageRow(i, post) ==
    [id |-> i, conversation_id |-> post.conversation_id,
     is_from_user |-> post.is_from_user, content |-> post.content,
     created_at |-> StartedAt(post.conversation_id)
                    + (IF post.backdated THEN 0 ELSE i)]

SeqsUpTo(n, S) == UNION {[1..k -> S] : k \in 0..n}

Database(conversations, posts) ==
    [conversations |-> conversations,
     messages |-> [i \in DOMAIN posts |-> MessageRow(i, posts[i])]]

EmptyDatabase == Database(<<>>, <<>>)

\* Histories of ordinary messages over all three conversations.
OrdinaryDatabases(n) ==
    {Database(ConversationRows, [i \in DOMAIN p |-> Posts[p[i]]]) :
        p \in SeqsUpTo(n, DOMAIN Posts)}

\* Histories of the first user whose messages hold no term.
QuietDatabases ==
    {Database(ConversationRows,
              [i \in DOMAIN q |->
                  [conversation_id |-> 1, is_from_user |-> (i = 1),
                   content |-> QuietContents[q[i]], backdated |-> FALSE]]) :
        q \in SeqsUpTo(MaxQuiet, DOMAIN QuietContents)}

Databases == {EmptyDatabase} \cup OrdinaryDatabases(MaxMessages) \cup QuietDatabases

Users == {1, 2}
Queries == {"anxious Work", "The"}
MaxResults == {0, 1, 2, 5}
ThemeArguments == {<<30, 2>>, <<90, 1>>, <<0, 2>>, <<90, 0>>}

----------------------------------------------------------------------------
(* The operations of the memory service, as steps.  Each consumes one of   *)
(* the calls the specification allows and records the finished call.       *)

IndexConversations ==
    /\ budget > 0
    /\ \E s \in DOMAIN services :
          LET r == index_conversations(services[s], db)
          IN  /\ services' = [services EXCEPT ![s].vectorizer = r.vectorizer]
              /\ calls' = Append(calls,
                     [op |-> "index_conversations", service |-> s,
                      raised |-> r.raised, chunks |-> r.chunks,
                      metadata |-> r.metadata, message_ids |-> r.message_ids])
    /\ budget' = budget - 1
    /\ UNCHANGED <<db, detector, call, outcome, active_services, clock, threads>>

Retrieve(s, query, max_results) ==
    LET r == retrieve_relevant_context(services[s], db, query, max_results)
    IN  /\ services' = [services EXCEPT ![s].vectorizer = r.vectorizer]
        /\ calls' = Append(calls,
               [op |-> "retrieve_relevant_context", service |-> s,
                query |-> query, max_results |-> max_results,
                raised |-> r.raised, value |-> r.value,
                similarities |-> r.similarities,
                chunks |-> r.index.chunks, metadata |-> r.index.metadata,
                message_ids |-> r.index.message_ids])
        /\ budget' = budget - 1
        /\ UNCHANGED <<db, detector, call, outcome, active_services, clock, threads>>

RetrieveRelevantContext ==
    /\ budget > 0
    /\ \E s \in DOMAIN services, query \in Queries, max_results \in MaxResults :
          Retrieve(s, query, max_results)

\* The first retrieval of a run of repeated requests.
FirstRetrieval ==
    /\ \A i \in DOMAIN calls : calls[i].op # "retrieve_relevant_context"
    /\ RetrieveRelevantContext

\* The request of the last call again, on either instance.
RepeatRetrieval ==
    /\ budget > 0
    /\ calls # <<>>
    /\ calls[Len(calls)].op = "retrieve_relevant_context"
    /\ \E s \in DOMAIN services :
          Retrieve(s, calls[Len(calls)].query, calls[Len(calls)].max_results)

GetRecentThemes ==
    /\ budget > 0
    /\ \E s \in DOMAIN services, arguments \in ThemeArguments :
          LET r == get_recent_themes(services[s], db, utcnow,
                                     arguments[1], arguments[2])
          IN  calls' = Append(calls,
                     [op |-> "get_recent_themes", service |-> s,
                      days |-> arguments[1], min_occurrences |-> arguments[2],
                      raised |-> r.raised, value |-> r.value, fit |-> r.fit])
    /\ budget' = budget - 1
    /\ UNCHANGED <<db, services, detector, call, outcome, active_services, clock, threads>>

\* One call on the service of either user, over any stored history.
InitMemory ==
    /\ db \in Databases
    /\ \E user_id \in Users : services = <<ConversationMemoryService(user_id)>>
    /\ calls = <<>>
    /\ budget = 1
    /\ detector = CrisisDetector(Null, Null)
    /\ call = Null
    /\ outcome = Null
    /\ active_services = <<>>
    /\ threads = <<>>
    /\ clock = utcnow

NextMemory == IndexConversations \/ RetrieveRelevantContext \/ GetRecentThemes

SpecMemory == InitMemory /\ [][NextMemory]_vars

\* One request repeated for the first user on two service instances, with
\* no write to the database between the calls.
InitRepeat ==
    /\ db \in OrdinaryDatabases(MaxRepeatMessages)
    /\ services = <<ConversationMemoryService(1), ConversationMemoryService(1)>>
    /\ calls = <<>>
    /\ budget = MaxCalls
    /\ detector = CrisisDetector(Null, Null)
    /\ call = Null
    /\ outcome = Null
    /\ active_services = <<>>
    /\ threads = <<>>
    /\ clock = utcnow

NextRepeat == FirstRetrieval \/ RepeatRetrieval

SpecRepeat == InitRepeat /\ [][NextRepeat]_vars

----------------------------------------------------------------------------
(* Specification of the detector's other public methods: one call of      *)
(* get_resources, get_crisis_response or get_historical_crisis_indicators *)
(* on a detector built with any of the injected tables.                    *)

MaxCategories == 2
MaxHistoryLength == 4

\* The seven categories of the default tables and the injected one.
CategoryNames ==
    {CRISIS_KEYWORDS[i].category : i \in DOMAIN CRISIS_KEYWORDS}
    \cup {"custom_category"}

CategoryLists == SeqsUpTo(MaxCategories, CategoryNames)

\* analysis_details: None, an empty dict, a dict without risk_level and the
\* dicts _perform_advanced_analysis returns at each risk level.
AnalysisDetails ==
    {Null, Some(<<>>), Some([confidence_score |-> 0])}
    \cup {Some([risk_level |-> level, confidence_score |-> 75]) :
            level \in {"low", "medium", "high"}}

\* Messages holding 0, 1, 2 and 3 crisis keywords.
HistoryMessages ==
    {"I am fine",
     "I feel HOPELESS",
     "hopeless and trapped",
     "Panic attack: terrified, can't breathe"}

MessageHistories == SeqsUpTo(MaxHistoryLength, HistoryMessages)

\* An injected resource table whose "general" list names one resource
\* twice and whose "suicide" list names it again, after another one.
repeated_resources ==
    <<[category |-> "general", resources |-> <<
        [name |-> "General Help",
         contact |-> "111-111-1111",
         description |-> "General help resource"],
        [name |-> "General Help",
         contact |-> "111-111-1111",
         description |-> "General help resource"]>>],
      [category |-> "suicide", resources |-> <<
        [name |-> "Custom Helpline",
         contact |-> "999-999-9999",
         description |-> "A custom helpline"],
        [name |-> "General Help",
         contact |-> "111-111-1111",
         description |-> "General help resource"]>>]>>

InitDetector ==
    /\ detector \in Detectors \cup {CrisisDetector(Null, Some(repeated_resources))}
    /\ call = Null
    /\ outcome = Null
    /\ db = EmptyDatabase
    /\ services = <<>>
    /\ calls = <<>>
    /\ budget = 0
    /\ active_services = <<>>
    /\ threads = <<>>
    /\ clock = utcnow

GetResources ==
    /\ call = Null
    /\ \E categories \in CategoryLists :
          /\ call' = Some([op |-> "get_resources", categories |-> categories])
          /\ outcome' = Some([raised |-> "none",
                              resources |-> get_resources(detector, categories)])
    /\ UNCHANGED <<detector, db, services, calls, budget, active_services, clock, threads>>

GetCrisisResponse ==
    /\ call = Null
    /\ \E categories \in CategoryLists, analysis_details \in AnalysisDetails :
          /\ call' = Some([op |-> "get_crisis_response", categories |-> categories,
                           analysis_details |-> analysis_details])
          /\ outcome' = Some(get_crisis_response(detector, categories,
                                                 analysis_details))
    /\ UNCHANGED <<detector, db, services, calls, budget, active_services, clock, threads>>

GetHistoricalCrisisIndicators ==
    /\ call = Null
    /\ \E message_history \in MessageHistories :
          /\ call' = Some([op |-> "get_historical_crisis_indicators",
                           message_history |-> message_history])
          /\ outcome' = Some(get_historical_crisis_indicators(detector,
                                                              message_history))
    /\ UNCHANGED <<detector, db, services, calls, budget, active_services, clock, threads>>

NextDetector == GetResources \/ GetCrisisResponse \/ GetHistoricalCrisisIndicators

SpecDetector == InitDetector /\ [][NextDetector]_vars

----------------------------------------------------------------------------
(* ConversationMemoryService.retrieve_therapeutic_timeline.  Timestamps    *)
(* are hours, as in the rows of the conversations table.                   *)

\* str(n) for n >= 0
RECURSIVE IntStr(_)
IntStr(n) ==
    IF n < 10 THEN Digits[n + 1] ELSE IntStr(n \div 10) \o Digits[(n % 10) + 1]

\* The f-string form of an optional integer.
Formatted(optional) == IF optional.some THEN IntStr(optional.val) ELSE "None"

UpperChar(c) ==
    IF \E i \in DOMAIN LowerCase : LowerCase[i] = c
    THEN UpperCase[CHOOSE i \in DOMAIN LowerCase : LowerCase[i] = c]
    ELSE c

\* str.capitalize()
Capitalize(s) ==
    IF Len(s) = 0 THEN "" ELSE UpperChar(SubSeq(s, 1, 1)) \o Lower(Tail(s))

\* The formal sessions of the user, ORDER BY started_at ASC.
FormalSessions(database, user_id) ==
    LET rows == SelectSeq(database.conversations,
                          LAMBDA c : c.user_id = user_id /\ c.is_formal_session)
    IN  OrderBy(rows, [i \in DOMAIN rows |-> rows[i].started_at])

SessionEvent(session) ==
    [type |-> "formal_session",
     date |-> session.started_at,
     title |-> IF session.title # "" THEN session.title
               ELSE "Session #" \o Formatted(session.session_number),
     details |-> [session_number |-> session.session_number,
                  conversation_id |-> session.id,
                  duration_minutes |->
                      IF session.ended_at.some
                      THEN Some(60 * (session.ended_at.val - session.started_at))
                      ELSE Null]]

\* The important memories of the user, ORDER BY created_at ASC.
UserMemories(database, user_id) ==
    LET rows == SelectSeq(database.important_memories,
                          LAMBDA r : r.user_id = user_id)
    IN  OrderBy(rows, [i \in DOMAIN rows |-> rows[i].created_at])

MemoryEvent(memory) ==
    [type |-> "important_memory",
     date |-> memory.created_at,
     title |-> IF memory.category.some /\ memory.category.val # ""
               THEN "Memory: " \o Capitalize(memory.category.val)
               ELSE "Important Memory",
     details |-> [content |-> memory.content,
                  category |-> memory.category,
                  importance_score |-> memory.importance_score]]

\* The homework assignments of the user, ORDER BY created_at ASC.
UserAssignments(database, user_id) ==
    LET rows == SelectSeq(database.homework_assignments,
                          LAMBDA r : r.user_id = user_id)
    IN  OrderBy(rows, [i \in DOMAIN rows |-> rows[i].created_at])

\* The completion event for every assignment that has a completion date.
CompletedWithDate_DateOnly(assignment) == assignment.completion_date.some

\* `if assignment.is_completed and assignment.completion_date:`
CompletedWithDate(assignment) ==
    assignment.is_completed /\ assignment.completion_date.some

AssignmentEvents(assignment) ==
    <<[type |-> "homework_assigned",
       date |-> assignment.created_at,
       title |-> "Homework: " \o assignment.title,
       details |-> [homework_id |-> assignment.id,
                    description |-> assignment.description,
                    technique |-> assignment.technique,
                    due_date |-> assignment.due_date]]>>
    \o (IF CompletedWithDate(assignment)
        THEN <<[type |-> "homework_completed",
                date |-> assignment.completion_date.val,
                title |-> "Completed: " \o assignment.title,
                details |-> [homework_id |-> assignment.id,
                             completion_notes |-> assignment.completion_notes,
                             days_to_complete |->
                                 (assignment.completion_date.val
                                    - assignment.created_at) \div 24]]>>
        ELSE <<>>)

\* timeline.sort(key=lambda x: x["date"]): a stable sort
SortedByDate(timeline) ==
    OrderBy(timeline, [i \in DOMAIN timeline |-> timeline[i].date])

TimelineOf(sessions, memories, assignments) ==
    SortedByDate([i \in DOMAIN sessions |-> SessionEvent(sessions[i])]
                 \o [i \in DOMAIN memories |-> MemoryEvent(memories[i])]
                 \o Concat([i \in DOMAIN assignments |->
                                AssignmentEvents(assignments[i])]))

\* retrieve_therapeutic_timeline()
retrieve_therapeutic_timeline(self, database) ==
    [raised |-> "none",
     value |-> TimelineOf(FormalSessions(database, self.user_id),
                          UserMemories(database, self.user_id),
                          UserAssignments(database, self.user_id))]

----------------------------------------------------------------------------
(* The stored histories the timeline is read from.                         *)

MaxSessions == 2
MaxMemories == 1
MaxAssignments == 1

\* What a conversation row can be, but for its id: a titled formal session
\* that has ended, an untitled one still open, a casual conversation and a
\* formal session of another user.
SessionShapes ==
    {[user_id |-> 1, title |-> "First Session", is_formal_session |-> TRUE,
      session_number |-> Some(1), started_at |-> 240, ended_at |-> Some(241)],
     [user_id |-> 1, title |-> "", is_formal_session |-> TRUE,
      session_number |-> Some(12), started_at |-> 100, ended_at |-> Null],
     [user_id |-> 1, title |-> "Check-in", is_formal_session |-> FALSE,
      session_number |-> Null, started_at |-> 150, ended_at |-> Some(150)],
     [user_id |-> 2, title |-> "First Session", is_formal_session |-> TRUE,
      session_number |-> Some(1), started_at |-> 120, ended_at |-> Null]}

\* What an important memory can be, but for its id.
MemoryShapes ==
    {[user_id |-> 1, conversation_id |-> Some(1),
      content |-> "User mentioned childhood trauma",
      category |-> Some("triggers"), importance_score |-> 80, created_at |-> 264],
     [user_id |-> 1, conversation_id |-> Null, content |-> "Sleeps badly",
      category |-> Null, importance_score |-> 50, created_at |-> 100],
     [user_id |-> 2, conversation_id |-> Null, content |-> "Likes running",
      category |-> Some("coping_strategies"), importance_score |-> 70,
      created_at |-> 130]}

\* What a homework assignment can be, but for its id: completed six days
\* after it was given, never completed, completed and then reopened (the
\* update keeps the completion date), and one of another user.
AssignmentShapes ==
    {[user_id |-> 1, title |-> "Daily Meditation",
      description |-> "Practice 10 minutes of mindfulness meditation daily",
      technique |-> "mindfulness", due_date |-> Some(408), is_completed |-> TRUE,
      completion_date |-> Some(384), completion_notes |-> Some("done"),
      created_at |-> 240],
     [user_id |-> 1, title |-> "Thought record",
      description |-> "Write down automatic thoughts", technique |-> "cbt",
      due_date |-> Null, is_completed |-> FALSE, completion_date |-> Null,
      completion_notes |-> Null, created_at |-> 100],
     [user_id |-> 1, title |-> "Walk",
      description |-> "Walk for 20 minutes",
      technique |-> "behavioral_activation", due_date |-> Some(300),
      is_completed |-> FALSE, completion_date |-> Some(90),
      completion_notes |-> Null, created_at |-> 80],
     [user_id |-> 2, title |-> "Daily Meditation",
      description |-> "Practice 10 minutes of mindfulness meditation daily",
      technique |-> "mindfulness", due_date |-> Null, is_completed |-> TRUE,
      completion_date |-> Some(150), completion_notes |-> Null,
      created_at |-> 125]}

\* The rows of a table in insertion order, the i-th with id i.
Rows(shapes) ==
    [i \in DOMAIN shapes |->
        [f \in (DOMAIN shapes[i]) \cup {"id"} |->
            IF f = "id" THEN i ELSE shapes[i][f]]]

TimelineDatabases ==
    {[conversations |-> Rows(sessions),
      messages |-> <<>>,
      important_memories |-> Rows(memories),
      homework_assignments |-> Rows(assignments)] :
        sessions \in SeqsUpTo(MaxSessions, SessionShapes),
        memories \in SeqsUpTo(MaxMemories, MemoryShapes),
        assignments \in SeqsUpTo(MaxAssignments, AssignmentShapes)}

RetrieveTherapeuticTimeline ==
    /\ budget > 0
    /\ \E s \in DOMAIN services :
          LET r == retrieve_therapeutic_timeline(services[s], db)
          IN  calls' = Append(calls,
                     [op |-> "retrieve_therapeutic_timeline", service |-> s,
                      raised |-> r.raised, value |-> r.value])
    /\ budget' = budget - 1
    /\ UNCHANGED <<db, services, detector, call, outcome, active_services, clock, threads>>

\* One request for the timeline of either user, over any stored history.
InitTimeline ==
    /\ db \in TimelineDatabases
    /\ \E user_id \in Users : services = <<ConversationMemoryService(user_id)>>
    /\ calls = <<>>
    /\ budget = 1
    /\ detector = CrisisDetector(Null, Null)
    /\ call = Null
    /\ outcome = Null
    /\ active_services = <<>>
    /\ threads = <<>>
    /\ clock = utcnow

NextTimeline == RetrieveTherapeuticTimeline

SpecTimeline == InitTimeline /\ [][NextTimeline]_vars

----------------------------------------------------------------------------
(* The conversation store: the handlers of api/endpoints/conversations.py  *)
(* and api/endpoints/voice.py that write the conversations and messages    *)
(* tables, each request served whole and at a later clock reading than     *)
(* the one before.                                                         *)

\* The bullet of format_resources (U+2022), written in ASCII.
Bullet == "*"

\* CrisisDetector.format_resources
format_resources(resources) ==
    IF Len(resources) = 0 THEN ""
    ELSE "Emergency Resources:\n\n"
         \o Join("", [i \in DOMAIN resources |->
                Bullet \o " " \o resources[i].name \o "\n"
                \o "  " \o resources[i].contact \o "\n"
                \o "  " \o resources[i].description \o "\n\n"])

\* db.query(Conversation).filter(Conversation.id == conversation_id).first()
FindConversation(database, conversation_id) ==
    IF \E i \in DOMAIN database.conversations :
            database.conversations[i].id = conversation_id
    THEN Some(CHOOSE i \in DOMAIN database.conversations :
                  database.conversations[i].id = conversation_id)
    ELSE Null

\* The count of the formal sessions of a user.
SessionCount(database, user_id) ==
    Cardinality({i \in DOMAIN database.conversations :
                    /\ database.conversations[i].user_id = user_id
                    /\ database.conversations[i].is_formal_session})

\* db.add(Conversation(...)); db.commit(): the row gets the next id, the
\* clock reading as started_at and no ended_at.
AddConversation(database, user_id, title, is_formal_session, session_number, now) ==
    [database EXCEPT !.conversations = Append(@,
        [id |-> Len(@) + 1, user_id |-> user_id, title |-> title,
         is_formal_session |-> is_formal_session,
         session_number |-> session_number,
         started_at |-> now, ended_at |-> Null])]

\* db.add(Message(...)); db.commit()
AddMessage(database, conversation_id, is_from_user, content, now) ==
    [database EXCEPT !.messages = Append(@,
        [id |-> Len(@) + 1, conversation_id |-> conversation_id,
         is_from_user |-> is_from_user, content |-> content,
         created_at |-> now])]

\* conversation.ended_at = datetime.utcnow(); db.commit()
SetEnded(database, row, now) ==
    [database EXCEPT !.conversations[row].ended_at = Some(now)]

\* `if not session_number:` of create_conversation: None and 0 alike.
NumberGiven(session_number) == session_number.some /\ session_number.val # 0

\* create_conversation: the session number the row is written with.
SessionNumberFor(database, user_id, conversation_in) ==
    IF conversation_in.is_formal_session /\ ~NumberGiven(conversation_in.session_number)
    THEN Some(SessionCount(database, user_id) + 1)
    ELSE conversation_in.session_number

\* The baseline scores create_message reads from the user's profile.
ProfileOf(user_id) ==
    IF user_id = 1
    THEN Some([anxiety_score |-> Some(3), depression_score |-> Some(9)])
    ELSE Null

\* The contents of the user's earlier messages in the conversation, oldest
\* first, the message just stored left out.
EarlierUserContents(database, conversation_id, message_id) ==
    LET rows == SelectSeq(ConversationMessages(database, conversation_id),
                          LAMBDA m : m.is_from_user /\ m.id # message_id)
    IN  [i \in DOMAIN rows |-> rows[i].content]

\* The crisis response without the resources after it.
CoachReply_NoResources(self, detection, llm_reply) ==
    IF detection.is_crisis /\ Len(detection.categories) > 0
    THEN get_crisis_response(self, detection.categories,
                             Some(detection.analysis)).response
    ELSE llm_reply

\* The content of the coach's message: the crisis response with the
\* formatted resources when a crisis was detected, the text of the
\* language model otherwise.
CoachReply(self, detection, llm_reply) ==
    IF detection.is_crisis /\ Len(detection.categories) > 0
    THEN get_crisis_response(self, detection.categories,
                             Some(detection.analysis)).response
         \o format_resources(detection.resources)
    ELSE llm_reply

\* importance_score > 0.6, in hundredths
MemoryFloor == 60

\* The mapped columns of the ImportantMemory model: the only keyword
\* arguments its constructor accepts.
ImportantMemoryColumns ==
    {"id", "user_id", "conversation_id", "content", "category",
     "importance_score", "created_at"}

\* The keyword arguments create_message builds the ImportantMemory with.
MemoryArguments ==
    {"user_id", "content", "category", "importance_score", "source_message_id"}

\* The declarative constructor raises TypeError on a keyword that is no
\* attribute of the class.
ConstructorRaises(arguments) == ~(arguments \subseteq ImportantMemoryColumns)

\* `if memory_data and 'content' in memory_data and memory_data['content']`
\* and `importance_score > 0.6`
WorthKeeping(memory_data) ==
    /\ memory_data.some
    /\ memory_data.val.content # ""
    /\ memory_data.val.importance_score > MemoryFloor

\* db.add(ImportantMemory(...)); db.commit()
AddMemory(database, user_id, content, category, importance_score, now) ==
    [database EXCEPT !.important_memories = Append(@,
        [id |-> Len(@) + 1, user_id |-> user_id, conversation_id |-> Null,
         content |-> content, category |-> Some(category),
         importance_score |-> importance_score, created_at |-> now])]

\* Lines 336-349 of create_message: the memory is added and committed
\* unless the constructor raises, which the handler logs and passes over.
KeepMemory(database, user_id, memory_data, now) ==
    IF WorthKeeping(memory_data) /\ ~ConstructorRaises(MemoryArguments)
    THEN AddMemory(database, user_id, memory_data.val.content,
                   memory_data.val.category, memory_data.val.importance_score, now)
    ELSE database

\* A follow-up asked for at every level.
requires_followup_Always(crisis_level) == TRUE

\* crisis_level in ["medium", "high"]
requires_followup(crisis_level) == crisis_level \in {"medium", "high"}

\* EmergencyContactService.record_crisis_event: a dict, nothing is written.
record_crisis_event(user_id, crisis_level, conversation_id, message_id, action_taken) ==
    [id |-> "mock-crisis-event-id", user_id |-> user_id,
     crisis_level |-> crisis_level, conversation_id |-> conversation_id,
     message_id |-> message_id, action_taken |-> action_taken,
     requires_followup |-> requires_followup(crisis_level),
     followup_scheduled |-> Null]

\* What the handler did with a message, next to the store it left: the
\* detection, the crisis event, whether the language model was asked, the
\* message ids of the chunks the retrieval searched, and the ids of the
\* rows written.
Handled(database, message_id, detection, crisis_event, llm_called, corpus, relevant_memories, ai_response) ==
    [database |-> database,
     response |-> [status |-> 201, message_id |-> message_id,
                   detection |-> detection, crisis_event |-> crisis_event,
                   llm_called |-> llm_called, corpus |-> corpus,
                   relevant_memories |-> relevant_memories,
                   ai_response |-> ai_response, memory_data |-> Null]]

\* Lines 253-286: the crisis response with the resources is committed
\* and the crisis event recorded.
CrisisAnswered(stored, user_id, conversation_id, message_id, detection, now) ==
    Handled(AddMessage(stored, conversation_id, FALSE,
                CoachReply(CrisisDetector(Null, Null), detection, ""), now),
            message_id,
            Some([is_crisis |-> detection.is_crisis,
                  categories |-> detection.categories,
                  resources |-> detection.resources,
                  analysis |-> detection.analysis]),
            Some(record_crisis_event(user_id, detection.analysis.risk_level,
                     conversation_id, message_id,
                     "Automated response with resources")),
            FALSE, Null, Null, Some(Len(stored.messages) + 1))

\* Lines 287-321: the retrieval over the store that holds the message
\* and the reply of the language model committed.  An exception of the
\* retrieval is not caught: the request fails with the message stored.
CoachAnswered(stored, conversation_id, message_id, detection, retrieval, llm_reply, now) ==
    IF retrieval.raised # "none"
    THEN [Handled(stored, message_id, Null, Null, FALSE,
                  Some(retrieval.index.message_ids), Null, Null)
            EXCEPT !.response.status = 500]
    ELSE Handled(AddMessage(stored, conversation_id, FALSE, llm_reply, now),
            message_id,
            Some([is_crisis |-> detection.is_crisis,
                  categories |-> detection.categories,
                  resources |-> detection.resources,
                  analysis |-> detection.analysis]),
            Null, TRUE,
            Some(retrieval.index.message_ids), Some(retrieval.value),
            Some(Len(stored.messages) + 1))

\* The retrieval run on the store as it was before the message.
Answered_RetrieveFirst(stored, user_id, conversation_id, message_in, detection, llm_reply, now) ==
    IF detection.is_crisis /\ Len(detection.categories) > 0
    THEN CrisisAnswered(stored, user_id, conversation_id, Len(stored.messages),
                        detection, now)
    ELSE CoachAnswered(stored, conversation_id, Len(stored.messages), detection,
                       retrieve_relevant_context(ConversationMemoryService(user_id),
                           [stored EXCEPT !.messages = SubSeq(@, 1, Len(@) - 1)],
                           message_in.content, 3),
                       llm_reply, now)

\* Lines 217-321, for the user's message with the id message_id.
AnsweredTo(stored, user_id, conversation_id, message_id, message_in, detection, llm_reply, now) ==
    IF detection.is_crisis /\ Len(detection.categories) > 0
    THEN CrisisAnswered(stored, user_id, conversation_id, message_id,
                        detection, now)
    ELSE CoachAnswered(stored, conversation_id, message_id, detection,
                       retrieve_relevant_context(ConversationMemoryService(user_id),
                           stored, message_in.content, 3),
                       llm_reply, now)

\* Lines 217-321 in a request that runs alone: the message just
\* committed is the last row.
Answered(stored, user_id, conversation_id, message_in, detection, llm_reply, now) ==
    AnsweredTo(stored, user_id, conversation_id, Len(stored.messages),
               message_in, detection, llm_reply, now)

\* create_message from the first commit to the coach's message: the
\* message, and for a message of the user the detection and the reply.
\* The memory extraction that follows a reply of the language model is
\* KeepMemory.
HandleMessage(database, user_id, conversation_id, message_in, llm_reply, now) ==
    LET stored == AddMessage(database, conversation_id, message_in.is_from_user,
                             message_in.content, now)
    IN  IF message_in.is_from_user
        THEN Answered(stored, user_id, conversation_id, message_in,
                 detect_crisis(CrisisDetector(Null, Null), message_in.content,
                     Some(EarlierUserContents(stored, conversation_id,
                                              Len(stored.messages))),
                     ProfileOf(user_id)),
                 llm_reply, now)
        ELSE Handled(stored, Len(stored.messages), Null, Null, FALSE, Null, Null,
                     Null)

\* VoiceConversationService._generate_mock_response
generate_mock_response(user_message) ==
    LET lowered == Lower(user_message)
    IN  IF Contains(lowered, "hello") \/ Contains(lowered, "hi")
        THEN "Hello! How are you feeling today?"
        ELSE IF Contains(lowered, "anxiety") \/ Contains(lowered, "anxious")
        THEN "I hear that you're feeling anxious. Can you tell me more about what's causing your anxiety?"
        ELSE IF Contains(lowered, "sad") \/ Contains(lowered, "depress")
        THEN "I'm sorry to hear that you're feeling down. What specific thoughts or situations have been contributing to these feelings?"
        ELSE IF Contains(lowered, "help")
        THEN "I'm here to help. Let's work through this together. Would you like to try a breathing exercise to help calm your mind?"
        ELSE "Thank you for sharing. Could you tell me more about your experience?"

\* VoiceConversationService.send_text_message: the message and the mock
\* response, with no look at the conversation's ended_at.
VoiceMessages(database, conversation_id, message_text, now) ==
    AddMessage(AddMessage(database, conversation_id, TRUE, message_text, now),
               conversation_id, FALSE, generate_mock_response(message_text), now)

\* The dict active_services without one key.
Without(services_by_user, user_id) ==
    [u \in (DOMAIN services_by_user) \ {user_id} |-> services_by_user[u]]

----------------------------------------------------------------------------
(* The requests on the store.                                              *)

MaxRequests == 3

\* The ids a request can name: those of the rows and one that is missing.
ConversationIds == 1..(Len(db.conversations) + 1)

ConversationsIn ==
    [title : {"Check-in"}, is_formal_session : BOOLEAN,
     session_number : {Null, Some(0), Some(7)}]

MessagesIn ==
    [is_from_user : BOOLEAN,
     content : {"I had a good day", "I want to die", "I want to kill myself"}]

\* What generate_response returns: here the apology it falls back on when
\* the API call fails.
LLMReplies ==
    {"I'm sorry, I'm having trouble generating a response right now. Please try again later."}

VoiceTexts == {"hello", "I want to die"}

\* The request and its response, and the clock and budget after it.
Served(request, response) ==
    /\ call' = Some(request)
    /\ outcome' = Some(response)
    /\ clock' = clock + 1
    /\ budget' = budget - 1
    /\ UNCHANGED <<detector, services, calls, threads>>

\* POST /conversations/
CreateConversation ==
    /\ budget > 0
    /\ \E user_id \in Users, conversation_in \in ConversationsIn :
          /\ db' = AddConversation(db, user_id, conversation_in.title,
                        conversation_in.is_formal_session,
                        SessionNumberFor(db, user_id, conversation_in), clock + 1)
          /\ Served([op |-> "create_conversation", user_id |-> user_id,
                     conversation_in |-> conversation_in,
                     conversation_id |-> Len(db.conversations) + 1],
                    [status |-> 201])
    /\ UNCHANGED active_services

\* What extract_important_memory returns: None when the model found
\* nothing or the call failed, else the parsed dict.
Extractions ==
    {Null,
     Some([content |-> "", category |-> "insights", importance_score |-> 90]),
     Some([content |-> "Good days follow rest", category |-> "progress",
           importance_score |-> 60]),
     Some([content |-> "Good days follow rest", category |-> "progress",
           importance_score |-> 90])}

\* The extraction runs only after a reply of the language model.
ExtractionsAfter(response) ==
    IF response.llm_called THEN Extractions ELSE {Null}

\* The answer to a create_message request on the store as it is.
MessageStatus(user_id, conversation_id) ==
    LET found == FindConversation(db, conversation_id)
    IN  IF ~found.some THEN 404
        ELSE IF db.conversations[found.val].user_id # user_id THEN 403
        ELSE IF db.conversations[found.val].ended_at.some THEN 400
        ELSE 201

\* POST /conversations/{conversation_id}/messages
CreateMessage ==
    /\ budget > 0
    /\ \E user_id \in Users, conversation_id \in ConversationIds,
          message_in \in MessagesIn, llm_reply \in LLMReplies :
          IF MessageStatus(user_id, conversation_id) # 201
          THEN /\ db' = db
               /\ Served([op |-> "create_message", user_id |-> user_id,
                          conversation_id |-> conversation_id,
                          message_in |-> message_in],
                         [status |-> MessageStatus(user_id, conversation_id)])
          ELSE LET handled == HandleMessage(db, user_id, conversation_id,
                                  message_in, llm_reply, clock + 1)
               IN  \E memory_data \in ExtractionsAfter(handled.response) :
                      /\ db' = KeepMemory(handled.database, user_id, memory_data,
                                          clock + 1)
                      /\ Served([op |-> "create_message", user_id |-> user_id,
                                 conversation_id |-> conversation_id,
                                 message_in |-> message_in],
                                [handled.response EXCEPT !.memory_data = memory_data])
    /\ UNCHANGED active_services

\* PUT /conversations/{conversation_id}/end
EndConversation ==
    /\ budget > 0
    /\ \E user_id \in Users, conversation_id \in ConversationIds :
          LET found == FindConversation(db, conversation_id)
              status == IF ~found.some THEN 404
                        ELSE IF db.conversations[found.val].user_id # user_id THEN 403
                        ELSE IF db.conversations[found.val].ended_at.some THEN 400
                        ELSE 200
          IN  /\ db' = IF status = 200 THEN SetEnded(db, found.val, clock + 1) ELSE db
              /\ Served([op |-> "end_conversation", user_id |-> user_id,
                         conversation_id |-> conversation_id],
                        [status |-> status])
    /\ UNCHANGED active_services

\* POST /voice/conversations, with VoiceConversationService.start_conversation:
\* the session number of the request is not passed on.
StartVoiceConversation ==
    /\ budget > 0
    /\ \E user_id \in Users, conversation_in \in ConversationsIn :
          IF user_id \in DOMAIN active_services
          THEN /\ UNCHANGED <<db, active_services>>
               /\ Served([op |-> "start_voice_conversation", user_id |-> user_id,
                          conversation_in |-> conversation_in,
                          conversation_id |-> 0],
                         [status |-> 400])
          ELSE /\ db' = AddConversation(db, user_id,
                            IF conversation_in.title # "" THEN conversation_in.title
                            ELSE "Voice conversation",
                            conversation_in.is_formal_session,
                            IF conversation_in.is_formal_session
                            THEN Some(SessionCount(db, user_id) + 1) ELSE Null,
                            clock + 1)
               /\ active_services' =
                     [u \in (DOMAIN active_services) \cup {user_id} |->
                         IF u = user_id
                         THEN [current_conversation |-> Len(db.conversations) + 1]
                         ELSE active_services[u]]
               /\ Served([op |-> "start_voice_conversation", user_id |-> user_id,
                          conversation_in |-> conversation_in,
                          conversation_id |-> Len(db.conversations) + 1],
                         [status |-> 201])

\* The "send_text" command on the voice websocket of a user with an
\* active service, acknowledged with the status "message_sent" (200 here).
VoiceSendTextMessage ==
    /\ budget > 0
    /\ \E user_id \in DOMAIN active_services, message_text \in VoiceTexts :
          /\ db' = VoiceMessages(db, active_services[user_id].current_conversation,
                                 message_text, clock + 1)
          /\ Served([op |-> "voice_send_text_message", user_id |-> user_id,
                     conversation_id |-> active_services[user_id].current_conversation,
                     message_text |-> message_text],
                    [status |-> 200])
    /\ UNCHANGED active_services

\* VoiceConversationService.end_conversation ends with
\* `self.current_conversation = None`.
CurrentAfterEnd == Null

\* db.query(service.current_conversation.__class__).get(conversation_id):
\* the class of None is no mapped class and the query raises, which the
\* handler does not catch.
EndResponseStatus(current_conversation) ==
    IF current_conversation.some THEN 200 ELSE 500

\* POST /voice/conversations/{conversation_id}/end, with
\* VoiceConversationService.end_conversation.  After the service has
\* cleared its current conversation the handler asks for its class and
\* queries on it, which fails: the answer is a 500, the end is committed.
\* The ended_at the row had before is kept with the response, for the
\* properties.
EndVoiceConversation ==
    /\ budget > 0
    /\ \E user_id \in Users, conversation_id \in ConversationIds :
          IF user_id \notin DOMAIN active_services
          THEN /\ UNCHANGED <<db, active_services>>
               /\ Served([op |-> "end_voice_conversation", user_id |-> user_id,
                          conversation_id |-> conversation_id],
                         [status |-> 404])
          ELSE IF active_services[user_id].current_conversation # conversation_id
          THEN /\ UNCHANGED <<db, active_services>>
               /\ Served([op |-> "end_voice_conversation", user_id |-> user_id,
                          conversation_id |-> conversation_id],
                         [status |-> 400])
          ELSE /\ db' = SetEnded(db, FindConversation(db, conversation_id).val,
                                 clock + 1)
               /\ active_services' = Without(active_services, user_id)
               /\ Served([op |-> "end_voice_conversation", user_id |-> user_id,
                          conversation_id |-> conversation_id],
                         [status |-> EndResponseStatus(CurrentAfterEnd),
                          ended_at_before |->
                              db.conversations[FindConversation(db, conversation_id).val].ended_at])

\* The store before any row is written.
EmptyStore ==
    [conversations |-> <<>>, messages |-> <<>>, important_memories |-> <<>>]

\* What a request to keep a memory can carry; a source_message_id of 0
\* stands for none.
MemoriesIn ==
    [content : {"Sleeps badly"}, category : {"triggers"},
     importance_score : {50, 90}]

\* POST /conversations/memories: after the checks on the source message
\* the ImportantMemory is built with source_message_id, the constructor
\* raises and the request fails with nothing written.
CreateImportantMemory ==
    /\ budget > 0
    /\ \E user_id \in Users, memory_in \in MemoriesIn,
          source_message_id \in 0..(Len(db.messages) + 1) :
          LET owner == IF source_message_id \in DOMAIN db.messages
                       THEN db.conversations[FindConversation(db,
                                db.messages[source_message_id].conversation_id).val].user_id
                       ELSE 0
              status == IF source_message_id # 0 /\ source_message_id \notin DOMAIN db.messages
                        THEN 404
                        ELSE IF source_message_id # 0 /\ owner # user_id THEN 403
                        ELSE IF ConstructorRaises(MemoryArguments) THEN 500
                        ELSE 201
          IN  /\ db' = IF status = 201
                       THEN AddMemory(db, user_id, memory_in.content,
                                memory_in.category, memory_in.importance_score,
                                clock + 1)
                       ELSE db
              /\ Served([op |-> "create_important_memory", user_id |-> user_id,
                         memory_in |-> memory_in,
                         source_message_id |-> source_message_id],
                        [status |-> status])
    /\ UNCHANGED active_services

\* An empty store, no voice service, and MaxRequests requests to come.
InitStore ==
    /\ db = EmptyStore
    /\ active_services = <<>>
    /\ threads = <<>>
    /\ clock = utcnow
    /\ budget = MaxRequests
    /\ detector = CrisisDetector(Null, Null)
    /\ services = <<>>
    /\ calls = <<>>
    /\ call = Null
    /\ outcome = Null

NextStore ==
    \/ CreateConversation
    \/ CreateMessage
    \/ EndConversation
    \/ StartVoiceConversation
    \/ VoiceSendTextMessage
    \/ EndVoiceConversation

SpecStore == InitStore /\ [][NextStore]_vars

----------------------------------------------------------------------------
(* The coach at work on a store that holds an open conversation of the    *)
(* first user and a memory written by store_important_memory: posts,      *)
(* the end of the conversation and requests to keep a memory.             *)

MaxPosts == 2

SeededStore ==
    [conversations |->
        <<[id |-> 1, user_id |-> 1, title |-> "Check-in",
           is_formal_session |-> FALSE, session_number |-> Null,
           started_at |-> utcnow - 1, ended_at |-> Null]>>,
     messages |-> <<>>,
     important_memories |->
        <<[id |-> 1, user_id |-> 1, conversation_id |-> Some(1),
           content |-> "Sleeps badly", category |-> Some("triggers"),
           importance_score |-> 80, created_at |-> utcnow - 1]>>]

InitCoach ==
    /\ db = SeededStore
    /\ active_services = <<>>
    /\ threads = <<>>
    /\ clock = utcnow
    /\ budget = MaxPosts
    /\ detector = CrisisDetector(Null, Null)
    /\ services = <<>>
    /\ calls = <<>>
    /\ call = Null
    /\ outcome = Null

NextCoach == CreateMessage \/ EndConversation \/ CreateImportantMemory

SpecCoach == InitCoach /\ [][NextCoach]_vars

----------------------------------------------------------------------------
(* One service instance of the first user that serves a retrieval, a      *)
(* post to the open conversation after it, and the retrieval again.       *)

MaxFresh == 3

\* The seeded store with an exchange already in the conversation.
FreshStore ==
    AddMessage(AddMessage(SeededStore, 1, TRUE, "Anxious about work", utcnow - 1),
               1, FALSE, "Sleep and work", utcnow - 1)

\* A create_message request once the instance has served a retrieval,
\* the only post of the run.
PostBetween ==
    /\ calls # <<>>
    /\ call = Null
    /\ CreateMessage

InitFresh ==
    /\ db = FreshStore
    /\ services = <<ConversationMemoryService(1)>>
    /\ calls = <<>>
    /\ budget = MaxFresh
    /\ detector = CrisisDetector(Null, Null)
    /\ call = Null
    /\ outcome = Null
    /\ active_services = <<>>
    /\ threads = <<>>
    /\ clock = utcnow

NextFresh == FirstRetrieval \/ PostBetween \/ RepeatRetrieval

SpecFresh == InitFresh /\ [][NextFresh]_vars

----------------------------------------------------------------------------
(* The handlers as the worker threads run them.  The endpoints are plain  *)
(* functions, which the framework runs in a thread pool, each request     *)
(* with a database session of its own and all of them with the one        *)
(* active_services dict; nothing is locked.  A handler is cut where it    *)
(* reads or commits, and the steps of the requests interleave freely.     *)
(* The locals a handler carries from one step to the next are kept with   *)
(* its thread.                                                            *)

MaxThreads == 2

\* The seeded store with a formal session of the first user that was
\* created with a session number of the client's.
RaceStore ==
    AddConversation(SeededStore, 1, "Check-in", TRUE, Some(7), utcnow - 1)

NoConversationIn ==
    [title |-> "", is_formal_session |-> FALSE, session_number |-> Null]

NoMessageIn == [is_from_user |-> FALSE, content |-> ""]

\* A worker thread with no request.
Idle ==
    [op |-> "none", pc |-> "idle", user_id |-> 0, conversation_id |-> 0,
     conversation_in |-> NoConversationIn, message_in |-> NoMessageIn,
     session_number |-> Null, message_id |-> 0, status |-> 0]

\* The requests that arrive: formal sessions without a session number
\* over both endpoints, posts to a conversation and the end of one.
RaceRequests ==
    {[Idle EXCEPT !.op = "create_conversation", !.pc = "count",
                  !.user_id = 1, !.conversation_in = conversation_in] :
        conversation_in \in {c \in ConversationsIn :
            c.is_formal_session /\ ~NumberGiven(c.session_number)}}
    \cup
    {[Idle EXCEPT !.op = "start_voice_conversation", !.pc = "check",
                  !.user_id = user_id,
                  !.conversation_in = [NoConversationIn EXCEPT
                                          !.is_formal_session = TRUE]] :
        user_id \in Users}
    \cup
    {[Idle EXCEPT !.op = "create_message", !.pc = "check", !.user_id = 1,
                  !.conversation_id = conversation_id,
                  !.message_in = message_in] :
        conversation_id \in ConversationIds,
        message_in \in {m \in MessagesIn : m.content # "I want to kill myself"}}
    \cup
    {[Idle EXCEPT !.op = "end_conversation", !.pc = "check", !.user_id = 1,
                  !.conversation_id = conversation_id] :
        conversation_id \in ConversationIds}

At(t, op, pc) == threads[t].op = op /\ threads[t].pc = pc

\* The thread goes on to the step pc, or returns with a status.
Goes(t, pc) == [threads EXCEPT ![t].pc = pc]

Returns(t, status) == [threads EXCEPT ![t].pc = "done", ![t].status = status]

\* A request reaches a free worker thread.
Arrive ==
    /\ \E t \in DOMAIN threads, request \in RaceRequests :
          /\ threads[t].pc = "idle"
          /\ threads' = [threads EXCEPT ![t] = request]
    /\ UNCHANGED <<db, active_services, clock, detector, call, outcome,
                   services, calls, budget>>

\* create_conversation, lines 56-68: the session number, counted when
\* the request carries none.
CountSessions ==
    /\ \E t \in DOMAIN threads :
          /\ At(t, "create_conversation", "count")
          /\ threads' = [threads EXCEPT
                ![t].session_number =
                    SessionNumberFor(db, threads[t].user_id,
                                     threads[t].conversation_in),
                ![t].pc = "commit"]
    /\ UNCHANGED <<db, active_services, clock, detector, call, outcome,
                   services, calls, budget>>

\* create_conversation, lines 99-108: the row is added and committed.
CommitConversation ==
    /\ \E t \in DOMAIN threads :
          /\ At(t, "create_conversation", "commit")
          /\ db' = AddConversation(db, threads[t].user_id,
                        threads[t].conversation_in.title,
                        threads[t].conversation_in.is_formal_session,
                        threads[t].session_number, clock + 1)
          /\ threads' = [Returns(t, 201) EXCEPT
                            ![t].conversation_id = Len(db.conversations) + 1]
    /\ clock' = clock + 1
    /\ UNCHANGED <<active_services, detector, call, outcome, services, calls,
                   budget>>

\* start_voice_conversation, lines 41-60: the look into active_services,
\* and the service built when the user has no entry.
CheckActiveService ==
    /\ \E t \in DOMAIN threads :
          /\ At(t, "start_voice_conversation", "check")
          /\ threads' = IF threads[t].user_id \in DOMAIN active_services
                        THEN Returns(t, 400)
                        ELSE Goes(t, "count")
    /\ UNCHANGED <<db, active_services, clock, detector, call, outcome,
                   services, calls, budget>>

\* VoiceConversationService.start_conversation, lines 80-87: the count of
\* the user's formal sessions.
CountVoiceSessions ==
    /\ \E t \in DOMAIN threads :
          /\ At(t, "start_voice_conversation", "count")
          /\ threads' = [threads EXCEPT
                ![t].session_number =
                    IF threads[t].conversation_in.is_formal_session
                    THEN Some(SessionCount(db, threads[t].user_id) + 1)
                    ELSE Null,
                ![t].pc = "commit"]
    /\ UNCHANGED <<db, active_services, clock, detector, call, outcome,
                   services, calls, budget>>

\* VoiceConversationService.start_conversation, lines 89-96: the row is
\* committed and kept by the service as its current conversation.
CommitVoiceConversation ==
    /\ \E t \in DOMAIN threads :
          /\ At(t, "start_voice_conversation", "commit")
          /\ db' = AddConversation(db, threads[t].user_id,
                        IF threads[t].conversation_in.title # ""
                        THEN threads[t].conversation_in.title
                        ELSE "Voice conversation",
                        threads[t].conversation_in.is_formal_session,
                        threads[t].session_number, clock + 1)
          /\ threads' = [Goes(t, "store") EXCEPT
                            ![t].conversation_id = Len(db.conversations) + 1]
    /\ clock' = clock + 1
    /\ UNCHANGED <<active_services, detector, call, outcome, services, calls,
                   budget>>

\* start_voice_conversation, lines 68-71: the service is put into the
\* dict under the user's id, over whatever is there.
StoreService ==
    /\ \E t \in DOMAIN threads :
          /\ At(t, "start_voice_conversation", "store")
          /\ active_services' =
                [u \in (DOMAIN active_services) \cup {threads[t].user_id} |->
                    IF u = threads[t].user_id
                    THEN [current_conversation |-> threads[t].conversation_id]
                    ELSE active_services[u]]
          /\ threads' = Returns(t, 201)
    /\ UNCHANGED <<db, clock, detector, call, outcome, services, calls, budget>>

\* The answer of the checks on the conversation a request names, ok when
\* they pass.
Checked(user_id, conversation_id, ok) ==
    LET found == FindConversation(db, conversation_id)
    IN  IF ~found.some THEN 404
        ELSE IF db.conversations[found.val].user_id # user_id THEN 403
        ELSE IF db.conversations[found.val].ended_at.some THEN 400
        ELSE ok

\* create_message, lines 193-203: the conversation is read and checked.
CheckMessage ==
    /\ \E t \in DOMAIN threads :
          /\ At(t, "create_message", "check")
          /\ threads' =
                IF Checked(threads[t].user_id, threads[t].conversation_id, 201) = 201
                THEN Goes(t, "post")
                ELSE Returns(t, Checked(threads[t].user_id,
                                        threads[t].conversation_id, 201))
    /\ UNCHANGED <<db, active_services, clock, detector, call, outcome,
                   services, calls, budget>>

\* create_message, lines 205-215: the message is committed; the request
\* of a message that is not the user's ends here.
PostMessage ==
    /\ \E t \in DOMAIN threads :
          /\ At(t, "create_message", "post")
          /\ db' = AddMessage(db, threads[t].conversation_id,
                              threads[t].message_in.is_from_user,
                              threads[t].message_in.content, clock + 1)
          /\ threads' = [(IF threads[t].message_in.is_from_user
                          THEN Goes(t, "reply") ELSE Returns(t, 201))
                         EXCEPT ![t].message_id = Len(db.messages) + 1]
    /\ clock' = clock + 1
    /\ UNCHANGED <<active_services, detector, call, outcome, services, calls,
                   budget>>

\* create_message, lines 217-365: the detection, the coach's message
\* with its commit, and the memory extraction.
ReplyMessage ==
    /\ \E t \in DOMAIN threads, llm_reply \in LLMReplies :
          /\ At(t, "create_message", "reply")
          /\ LET handled ==
                    AnsweredTo(db, threads[t].user_id, threads[t].conversation_id,
                        threads[t].message_id, threads[t].message_in,
                        detect_crisis(CrisisDetector(Null, Null),
                            threads[t].message_in.content,
                            Some(EarlierUserContents(db, threads[t].conversation_id,
                                                     threads[t].message_id)),
                            ProfileOf(threads[t].user_id)),
                        llm_reply, clock + 1)
             IN  \E memory_data \in ExtractionsAfter(handled.response) :
                    /\ db' = KeepMemory(handled.database, threads[t].user_id,
                                        memory_data, clock + 1)
                    /\ threads' = Returns(t, handled.response.status)
    /\ clock' = clock + 1
    /\ UNCHANGED <<active_services, detector, call, outcome, services, calls,
                   budget>>

\* end_conversation, lines 388-394: the conversation is read and checked.
CheckEnd ==
    /\ \E t \in DOMAIN threads :
          /\ At(t, "end_conversation", "check")
          /\ threads' =
                IF Checked(threads[t].user_id, threads[t].conversation_id, 200) = 200
                THEN Goes(t, "commit")
                ELSE Returns(t, Checked(threads[t].user_id,
                                        threads[t].conversation_id, 200))
    /\ UNCHANGED <<db, active_services, clock, detector, call, outcome,
                   services, calls, budget>>

\* end_conversation, lines 396-399: ended_at is set and committed.
CommitEnd ==
    /\ \E t \in DOMAIN threads :
          /\ At(t, "end_conversation", "commit")
          /\ db' = SetEnded(db, FindConversation(db, threads[t].conversation_id).val,
                            clock + 1)
          /\ threads' = Returns(t, 200)
    /\ clock' = clock + 1
    /\ UNCHANGED <<active_services, detector, call, outcome, services, calls,
                   budget>>

\* The seeded store, no voice service, and MaxThreads free threads.
InitRace ==
    /\ db = RaceStore
    /\ active_services = <<>>
    /\ threads = [t \in 1..MaxThreads |-> Idle]
    /\ clock = utcnow
    /\ budget = 0
    /\ detector = CrisisDetector(Null, Null)
    /\ services = <<>>
    /\ calls = <<>>
    /\ call = Null
    /\ outcome = Null

NextRace ==
    \/ Arrive
    \/ CountSessions
    \/ CommitConversation
    \/ CheckActiveService
    \/ CountVoiceSessions
    \/ CommitVoiceConversation
    \/ StoreService
    \/ CheckMessage
    \/ PostMessage
    \/ ReplyMessage
    \/ CheckEnd
    \/ CommitEnd

SpecRace == InitRace /\ [][NextRace]_vars

----------------------------------------------------------------------------
(* Properties of the crisis detector, stated over the finished call.       *)

Returned == outcome # Null /\ outcome.val.raised = "none"

Range(list) == {list[i] : i \in DOMAIN list}

Occurrences(x, list) == Cardinality({i \in DOMAIN list : list[i] = x})

\* The categories with a keyword in the lower-cased message.
KeywordCategories ==
    LET lowered == Lower(call.val.message)
    IN  {detector.crisis_keywords[i].category :
            i \in {j \in DOMAIN detector.crisis_keywords :
                    AnyKeywordIn(detector.crisis_keywords[j].keywords, lowered)}}

\* The message holds a harm word and a self reference, in any letter case.
HarmAndSelf ==
    LET lowered == Lower(call.val.message)
    IN  /\ (Contains(lowered, "hurt") \/ Contains(lowered, "harm"))
        /\ (Contains(lowered, "myself") \/ Contains(lowered, "self"))

\* What the keyword matcher finds, the self-harm heuristic included.
LexicalCategories ==
    KeywordCategories \cup (IF HarmAndSelf THEN {"self_harm"} ELSE {})

ContextCategories == Range(outcome.val.analysis.context_categories)

\* C1: the categories detect_crisis returns are exactly the union of the
\* keyword matcher's categories (self-harm heuristic included) and the
\* analysis' context_categories, each listed once.
C1_CategoryUnion ==
    Returned =>
        /\ Range(outcome.val.categories) = LexicalCategories \cup ContextCategories
        /\ Cardinality(Range(outcome.val.categories)) = Len(outcome.val.categories)

\* A call where a category was found both by keyword and by context, and
\* another one by context alone.
C1_Witness ==
    /\ Returned
    /\ LexicalCategories \cap ContextCategories # {}
    /\ ContextCategories \ LexicalCategories # {}

GeneralResources == TableGet(detector.emergency_resources, "general", <<>>)

\* C2 as stated: is_crisis iff the union is non-empty, nothing is returned
\* without a crisis, and a crisis always comes with resources.
C2_CrisisIffCategories_Original ==
    Returned =>
        /\ outcome.val.is_crisis <=> (LexicalCategories \cup ContextCategories # {})
        /\ ~outcome.val.is_crisis =>
                outcome.val.categories = <<>> /\ outcome.val.resources = <<>>
        /\ outcome.val.is_crisis => outcome.val.resources # <<>>

\* C2 amended: is_crisis iff the union is non-empty, nothing is returned
\* without a crisis, and a crisis comes with resources exactly when the
\* detector's table has a general resource or a resource for a returned
\* category (so always with a table that has general resources).
C2_CrisisIffCategories ==
    Returned =>
        /\ outcome.val.is_crisis <=> (LexicalCategories \cup ContextCategories # {})
        /\ ~outcome.val.is_crisis =>
                outcome.val.categories = <<>> /\ outcome.val.resources = <<>>
        /\ outcome.val.is_crisis =>
                (outcome.val.resources # <<>> <=>
                    \/ GeneralResources # <<>>
                    \/ \E c \in Range(outcome.val.categories) :
                            TableGet(detector.emergency_resources, c, <<>>) # <<>>)

\* A crisis reported by a detector with general resources whose category
\* has no resources of its own: the general ones are all it returns.
C2_Witness ==
    /\ Returned
    /\ outcome.val.is_crisis
    /\ GeneralResources # <<>>
    /\ outcome.val.resources = GeneralResources
    /\ \A c \in Range(outcome.val.categories) :
            TableGet(detector.emergency_resources, c, <<>>) = <<>>

\* C3: along the rules of one analysis, in the order they run, neither
\* risk_level (low < medium < high) nor confidence_score ever decreases.
C3_MonotonicEscalation ==
    Returned =>
        \A i \in 1..(Len(outcome.val.trace) - 1) :
            /\ risk_level_order(outcome.val.trace[i + 1].risk_level)
                    >= risk_level_order(outcome.val.trace[i].risk_level)
            /\ outcome.val.trace[i + 1].confidence_score
                    >= outcome.val.trace[i].confidence_score

\* An analysis that went from low to medium on the history, to high on the
\* profile, and then ran the context-category floor.
C3_Witness ==
    /\ Returned
    /\ outcome.val.trace[3].risk_level = "low"
    /\ outcome.val.trace[4].risk_level = "medium"
    /\ outcome.val.trace[6].risk_level = "high"
    /\ outcome.val.analysis.context_categories # <<>>
    /\ outcome.val.analysis.risk_level = "high"

\* C4: detect_crisis never raises, whatever the message, history and
\* profile; the empty message without history and profile yields no crisis,
\* no categories, no resources, risk_level low and confidence 0.0.
C4_NeverRaises ==
    outcome # Null =>
        /\ outcome.val.raised = "none"
        /\ (call.val.message = "" /\ call.val.message_history = Null
                /\ call.val.user_profile = Null) =>
                /\ ~outcome.val.is_crisis
                /\ outcome.val.categories = <<>>
                /\ outcome.val.resources = <<>>
                /\ outcome.val.analysis.risk_level = "low"
                /\ outcome.val.analysis.confidence_score = 0

\* A call that returned although its profile holds a null score next to a
\* high one and its history is the empty list.
C4_Witness ==
    /\ Returned
    /\ call.val.message_history = Some(<<>>)
    /\ call.val.user_profile.some
    /\ \E k \in DOMAIN call.val.user_profile.val : ~call.val.user_profile.val[k].some

\* C10: a message with a harm word and a self reference, in any letter
\* case, has self_harm among the returned categories exactly once.
C10_SelfHarmHeuristic ==
    (Returned /\ HarmAndSelf) => Occurrences("self_harm", outcome.val.categories) = 1

\* A mixed-case message with "harm" and "self" but no "hurt" and no
\* self-harm keyword phrase.
C10_Witness ==
    /\ Returned
    /\ HarmAndSelf
    /\ call.val.message # Lower(call.val.message)
    /\ ~Contains(Lower(call.val.message), "hurt")
    /\ "self_harm" \notin KeywordCategories
    /\ InSeq("self_harm", outcome.val.categories)

\* How often a keyword occurs in a text, repeats counted.
OccurrencesIn(text, keyword) ==
    Cardinality({i \in 1..(Len(text) - Len(keyword) + 1) :
                    SubSeq(text, i, i + Len(keyword) - 1) = keyword})

RECURSIVE SumOccurrences(_, _)
SumOccurrences(text, keywords) ==
    IF keywords = {} THEN 0
    ELSE LET k == CHOOSE k \in keywords : TRUE
         IN  OccurrencesIn(text, k) + SumOccurrences(text, keywords \ {k})

\* The occurrences of the detector's keywords in the last entries of the
\* history joined with the message, in any letter case.
KeywordOccurrences ==
    LET text == Lower(FullText(call.val.message, call.val.message_history))
        present == {k \in Range(AllCrisisWords(detector.crisis_keywords)) :
                        Contains(text, k)}
    IN  SumOccurrences(text, present)

\* C12 as stated: with a message history supplied, 3 or more occurrences
\* of known crisis keywords in the last 5 entries joined with the current
\* message (repeats counted, any letter case) give a risk_level of at
\* least medium and a confidence_score of at least 0.6.
C12_KeywordDensity ==
    (Returned /\ HistoryGiven(call.val.message_history)
              /\ KeywordOccurrences >= DensityThreshold)
        => /\ risk_level_order(outcome.val.analysis.risk_level)
                >= risk_level_order("medium")
           /\ outcome.val.analysis.confidence_score >= 60

\* A history of three entries that each hold a crisis keyword, in capital
\* letters or the same one each time, analysed as low risk.
C12_Witness ==
    /\ Returned
    /\ HistoryGiven(call.val.message_history)
    /\ \A i \in DOMAIN call.val.message_history.val :
          AnyKeywordIn(AllCrisisWords(detector.crisis_keywords),
                       Lower(call.val.message_history.val[i]))
    /\ Len(call.val.message_history.val) >= DensityThreshold
    /\ outcome.val.analysis.risk_level = "low"
    /\ outcome.val.analysis.confidence_score = 0

\* The profile carries a score of 8 or more under the key.
ProfileScoreHigh(key) ==
    /\ ProfileGiven(call.val.user_profile)
    /\ key \in DOMAIN call.val.user_profile.val
    /\ call.val.user_profile.val[key].some
    /\ call.val.user_profile.val[key].val >= HighScore

\* C13: with a profile whose depression_score is 8 or more and
\* severe_depression among the context_categories the result has
\* risk_level high and confidence at least 0.8; with anxiety_score 8 or
\* more and severe_anxiety among the context_categories, risk_level high
\* and confidence at least 0.7; risk_level high comes about in no other
\* case.
C13_ProfileEscalation ==
    Returned =>
        LET depression == /\ ProfileScoreHigh("depression_score")
                          /\ "severe_depression" \in ContextCategories
            anxiety == /\ ProfileScoreHigh("anxiety_score")
                       /\ "severe_anxiety" \in ContextCategories
        IN  /\ depression => /\ outcome.val.analysis.risk_level = "high"
                             /\ outcome.val.analysis.confidence_score >= 80
            /\ anxiety => /\ outcome.val.analysis.risk_level = "high"
                          /\ outcome.val.analysis.confidence_score >= 70
            /\ outcome.val.analysis.risk_level = "high" => (depression \/ anxiety)

\* A message of the "no hope for the future" combination from a user with
\* a depression score of 9: escalated to high by the profile rule.
C13_Witness ==
    /\ Returned
    /\ ProfileScoreHigh("depression_score")
    /\ "severe_depression" \in ContextCategories
    /\ outcome.val.trace[5].risk_level # "high"
    /\ outcome.val.trace[6].risk_level = "high"
    /\ outcome.val.analysis.confidence_score >= 80

\* C14: when context_categories is not empty (an indirect pattern or a
\* word combination fired) the confidence_score is at least 0.75 and the
\* risk_level is medium or high.
C14_ContextFloor ==
    (Returned /\ ContextCategories # {})
        => /\ outcome.val.analysis.confidence_score >= 75
           /\ outcome.val.analysis.risk_level \in {"medium", "high"}

\* A context category found with nothing else to raise the analysis: the
\* floor alone took it from low and 0.0 to medium and 0.75.
C14_Witness ==
    /\ Returned
    /\ ContextCategories # {}
    /\ outcome.val.trace[7] = [risk_level |-> "low", confidence_score |-> 0]
    /\ outcome.val.analysis.risk_level = "medium"
    /\ outcome.val.analysis.confidence_score = 75

----------------------------------------------------------------------------
(* Properties of the detector's other public methods, stated over the     *)
(* finished call.                                                          *)

Called(op) == call # Null /\ call.val.op = op /\ outcome # Null

\* The resources start with the whole "general" list and every other
\* entry comes from the list of a category asked for, in category order.
GeneralFirstThenCategories ==
    LET general == TableGet(detector.emergency_resources, "general", <<>>)
        resources == outcome.val.resources
        categories == call.val.categories
        FromCategory(r) ==
            {c \in DOMAIN categories :
                InSeq(r, TableGet(detector.emergency_resources, categories[c], <<>>))}
    IN  /\ Len(resources) >= Len(general)
        /\ SubSeq(resources, 1, Len(general)) = general
        /\ \A i \in (Len(general) + 1)..Len(resources) : FromCategory(resources[i]) # {}
        /\ \A i, j \in (Len(general) + 1)..Len(resources) :
              i < j => \E c \in FromCategory(resources[i]),
                          d \in FromCategory(resources[j]) : c <= d
        /\ \A c \in DOMAIN categories :
              \A r \in Range(TableGet(detector.emergency_resources, categories[c], <<>>)) :
                  InSeq(r, resources)

\* C11 as stated: for every list of categories and every configured
\* table, get_resources returns all "general" resources first, then the
\* resources of each category in category order, and no resource twice.
C11_ResourcesNoRepeat_Original ==
    Called("get_resources") =>
        /\ GeneralFirstThenCategories
        /\ \A i, j \in DOMAIN outcome.val.resources :
              outcome.val.resources[i] = outcome.val.resources[j] => i = j

\* C11: get_resources returns the "general" list as configured, then the
\* resources of each category in category order, none of which is added
\* when already in the list: a resource is returned twice only when the
\* "general" list itself names it twice.
C11_ResourcesNoRepeat ==
    Called("get_resources") =>
        /\ GeneralFirstThenCategories
        /\ \A i, j \in DOMAIN outcome.val.resources :
              (outcome.val.resources[i] = outcome.val.resources[j] /\ i < j)
                  => j <= Len(TableGet(detector.emergency_resources, "general", <<>>))

\* Two categories of the default table that share a resource with the
\* general list or with each other: the shared resource is returned once.
C11_Witness ==
    /\ Called("get_resources")
    /\ detector = CrisisDetector(Null, Null)
    /\ Len(call.val.categories) = 2
    /\ Len(outcome.val.resources) > Len(TableGet(detector.emergency_resources, "general", <<>>))
    /\ \E c \in DOMAIN call.val.categories :
          \E r \in Range(TableGet(detector.emergency_resources, call.val.categories[c], <<>>)) :
              \/ InSeq(r, TableGet(detector.emergency_resources, "general", <<>>))
              \/ \E d \in 1..(c - 1) :
                    InSeq(r, TableGet(detector.emergency_resources, call.val.categories[d], <<>>))

\* The seven categories of the default keyword table.
CrisisCategories ==
    {CRISIS_KEYWORDS[i].category : i \in DOMAIN CRISIS_KEYWORDS}

\* The categories of the paragraphs in a response, in their order.
ParagraphsOf(parts) ==
    LET paragraphs == SelectSeq(parts, LAMBDA p : p.kind = "category")
    IN  [i \in DOMAIN paragraphs |-> paragraphs[i].of]

\* The closing a response holds: "high", "medium" or "none".
ClosingOf(parts) ==
    LET closings == SelectSeq(parts, LAMBDA p : p.kind = "guidance")
    IN  IF Len(closings) = 0 THEN "none" ELSE closings[1].of

\* The risk level the request carries, "none" without one.
RequestedRisk ==
    IF call.val.analysis_details.some
       /\ "risk_level" \in DOMAIN call.val.analysis_details.val
    THEN call.val.analysis_details.val.risk_level
    ELSE "none"

\* The response is the preamble, the paragraphs, at most one closing and
\* the introduction of the resources, in that order and nothing else.
ResponseLayout ==
    LET parts == outcome.val.parts
        n == Len(parts)
        paragraphs == Len(ParagraphsOf(parts))
    IN  /\ outcome.val.raised = "none"
        /\ outcome.val.response = Join("", [i \in DOMAIN parts |-> parts[i].text])
        /\ n \in {paragraphs + 2, paragraphs + 3}
        /\ parts[1] = [kind |-> "preamble", of |-> "", text |-> ResponsePreamble]
        /\ \A i \in 2..(paragraphs + 1) : parts[i].kind = "category"
        /\ n = paragraphs + 3 => parts[n - 1].kind = "guidance"
        /\ parts[n] = [kind |-> "introduction", of |-> "", text |-> ResourcesIntroduction]
        /\ ClosingOf(parts) =
              (IF RequestedRisk \in {"high", "medium"} THEN RequestedRisk ELSE "none")
        /\ \A i \in DOMAIN parts :
              /\ parts[i].kind = "guidance" /\ parts[i].of = "high"
                    => parts[i].text = HighRiskGuidance
              /\ parts[i].kind = "guidance" /\ parts[i].of = "medium"
                    => parts[i].text = MediumRiskGuidance
        /\ \A i, j \in DOMAIN ParagraphsOf(parts) :
              ParagraphsOf(parts)[i] = ParagraphsOf(parts)[j] => i = j

\* C15 as stated: for every list of categories drawn from the seven crisis
\* categories and every risk level, get_crisis_response returns the
\* preamble, then exactly one paragraph for each category of the list and
\* none for the others, then the closing of the risk level (nothing for
\* low or for no analysis), then the introduction of the resources.
C15_ResponseParagraphs ==
    (Called("get_crisis_response")
        /\ Range(call.val.categories) \subseteq CrisisCategories)
        => /\ ResponseLayout
           /\ Range(ParagraphsOf(outcome.val.parts)) = Range(call.val.categories)

\* C15, the part the code keeps: the layout is as stated and the
\* paragraphs are those of the listed categories other than
\* severe_anxiety, which has none.
C15_ResponseParagraphsButAnxiety ==
    (Called("get_crisis_response")
        /\ Range(call.val.categories) \subseteq CrisisCategories)
        => /\ ResponseLayout
           /\ Range(ParagraphsOf(outcome.val.parts))
                = Range(call.val.categories) \ {"severe_anxiety"}

\* C15, the failing case: severe_anxiety is the one category asked for and
\* the response goes from the preamble straight to the closing.
C15_NoAnxietyParagraph ==
    /\ Called("get_crisis_response")
    /\ call.val.categories = <<"severe_anxiety">>
    /\ RequestedRisk = "high"
    /\ ParagraphsOf(outcome.val.parts) = <<>>
    /\ outcome.val.response
         = ResponsePreamble \o HighRiskGuidance \o ResourcesIntroduction

HistoricalKeys ==
    {"pattern_found", "increasing_pattern", "persistent_categories",
     "category_persistence"}

\* C16 as stated: for every message history, the empty one included,
\* get_historical_crisis_indicators returns a dictionary with the four
\* keys pattern_found, increasing_pattern, persistent_categories and
\* category_persistence.
C16_FourKeys ==
    Called("get_historical_crisis_indicators")
        => /\ outcome.val.raised = "none"
           /\ HistoricalKeys \subseteq DOMAIN outcome.val.result

\* C16, the part the code keeps: the four keys are there for every
\* history that is not empty.
C16_FourKeysNonEmpty ==
    (Called("get_historical_crisis_indicators")
        /\ Len(call.val.message_history) > 0)
        => /\ outcome.val.raised = "none"
           /\ DOMAIN outcome.val.result = HistoricalKeys

\* C16, the failing case: the empty history gets pattern_found alone.
C16_EmptyHistory ==
    /\ Called("get_historical_crisis_indicators")
    /\ call.val.message_history = <<>>
    /\ DOMAIN outcome.val.result = {"pattern_found"}
    /\ outcome.val.result.pattern_found = FALSE

\* The number of entries of the detector's keyword lists found in a
\* message, in any letter case.
KeywordCount(message) ==
    LET words == AllCrisisWords(detector.crisis_keywords)
        lowered == Lower(message)
    IN  Cardinality({k \in DOMAIN words : Contains(lowered, words[k])})

\* The messages of the history that hold a keyword of the category.
MessagesWith(c) ==
    {i \in DOMAIN call.val.message_history :
        LET lowered == Lower(call.val.message_history[i])
        IN  \E k \in Range(detector.crisis_keywords[c].keywords) :
                Contains(lowered, k)}

----------------------------------------------------------------------------
(* Properties of the memory service, stated over the finished calls.       *)

IndexCalls == {i \in DOMAIN calls : calls[i].op = "index_conversations"}

RetrieveCalls == {i \in DOMAIN calls : calls[i].op = "retrieve_relevant_context"}

ThemeCalls == {i \in DOMAIN calls : calls[i].op = "get_recent_themes"}

UserOf(c) == services[c.service].user_id

\* The messages of the conversations of a user, as rows of the table.
MessagesOfUser(user_id) ==
    {i \in DOMAIN db.messages :
        \E c \in DOMAIN db.conversations :
            /\ db.conversations[c].user_id = user_id
            /\ db.conversations[c].id = db.messages[i].conversation_id}

MessageWithId(id) == db.messages[CHOOSE i \in DOMAIN db.messages : db.messages[i].id = id]

\* C5: no entry returned by retrieve_relevant_context has a
\* similarity_score of 0.1 or less, whatever the corpus, the query and
\* max_results.
C5_RelevanceFloor ==
    \A i \in RetrieveCalls :
        \A r \in DOMAIN calls[i].value :
            ~(calls[i].value[r].similarity_score <= RelevanceFloor)

\* A retrieval that returned a chunk and dropped another one for its
\* score: a chunk that shares no term with the query was among the top
\* max_results.
C5_Witness ==
    \E i \in RetrieveCalls :
        /\ calls[i].raised = "none"
        /\ calls[i].max_results >= Len(calls[i].similarities)
        /\ Len(calls[i].value) >= 1
        /\ \E j \in DOMAIN calls[i].similarities :
              calls[i].similarities[j] <= RelevanceFloor

\* The i-th chunk of the index a retrieval ran over, as a result entry.
EntryOf(c, i) ==
    [text |-> c.chunks[i], metadata |-> c.metadata[i],
     similarity_score |-> c.similarities[i]]

\* The returned list is what "the top max_results, less those at or under
\* the floor" describes: at most max_results entries, scores
\* non-increasing, and for some choice T of max_results highest-scoring
\* chunks exactly the chunks of T above the floor.
TopOfRanking(c) ==
    LET n == Len(c.similarities)
        size == IF c.max_results < n THEN c.max_results ELSE n
    IN  /\ Len(c.value) <= c.max_results
        /\ \A r \in 1..(Len(c.value) - 1) :
              c.value[r].similarity_score >= c.value[r + 1].similarity_score
        /\ \E T \in SUBSET (1..n) :
              /\ Cardinality(T) = size
              /\ \A t \in T, u \in (1..n) \ T : c.similarities[t] >= c.similarities[u]
              /\ Len(c.value) = Cardinality({t \in T : c.similarities[t] > RelevanceFloor})
              /\ \A t \in T : c.similarities[t] > RelevanceFloor
                    => \E r \in DOMAIN c.value : c.value[r] = EntryOf(c, t)

\* C6: for every max_results >= 0, zero included, retrieve_relevant_context
\* returns at most max_results entries, ordered by similarity_score
\* non-increasing, and they are the chunks among the max_results
\* highest-scoring ones that clear the relevance floor.
C6_TopResults ==
    \A i \in RetrieveCalls :
        (calls[i].raised = "none" /\ calls[i].max_results >= 0)
            => TopOfRanking(calls[i])

\* The same statement for max_results of one and more.
C6_TopResultsFromOne ==
    \A i \in RetrieveCalls :
        (calls[i].raised = "none" /\ calls[i].max_results >= 1)
            => TopOfRanking(calls[i])

\* A retrieval asked for no result that returned some.
C6_ZeroReturnsAll ==
    \E i \in RetrieveCalls :
        /\ calls[i].raised = "none"
        /\ calls[i].max_results = 0
        /\ Len(calls[i].value) >= 1

\* A retrieval of one result out of two chunks that both clear the floor
\* with different scores.
C6_Witness ==
    \E i \in RetrieveCalls :
        /\ calls[i].raised = "none"
        /\ calls[i].max_results = 1
        /\ Len(calls[i].value) = 1
        /\ \E j, k \in DOMAIN calls[i].similarities :
              /\ calls[i].similarities[j] > calls[i].similarities[k]
              /\ calls[i].similarities[k] > RelevanceFloor

\* C7: two calls of retrieve_relevant_context with the same query, user
\* and max_results and no write between them return identical ranked
\* lists (chunks, metadata, scores, order), on one service instance or
\* on two.
C7_Idempotent ==
    \A i, j \in RetrieveCalls :
        (/\ UserOf(calls[i]) = UserOf(calls[j])
         /\ calls[i].query = calls[j].query
         /\ calls[i].max_results = calls[j].max_results)
            => (calls[i].raised = calls[j].raised /\ calls[i].value = calls[j].value)

\* Three calls of one request, two of them on the same instance and one
\* on the other, over a history of two chunks that returned a result.
C7_Witness ==
    \E i, j, k \in RetrieveCalls :
        /\ i < j /\ j < k
        /\ calls[i].service = calls[j].service
        /\ calls[k].service # calls[i].service
        /\ Len(calls[i].similarities) = 2
        /\ Len(calls[k].value) >= 1

\* C8: retrieve_relevant_context and get_recent_themes never raise
\* whatever history is stored for the user: without conversations, with
\* conversations without messages, with messages that are empty, blank
\* or only stop words, they return the empty list or a normal result,
\* and a failure to fit the vectorizer does not propagate.
C8_NeverRaises ==
    \A i \in RetrieveCalls \cup ThemeCalls :
        /\ calls[i].raised = "none"
        /\ MessagesOfUser(UserOf(calls[i])) = {} => calls[i].value = <<>>

\* get_recent_themes over user messages that are not blank and hold only
\* stop words: the fit failed and the call returned the empty list.
C8_Witness ==
    \E i \in ThemeCalls :
        /\ calls[i].fit = "ValueError"
        /\ calls[i].raised = "none"
        /\ calls[i].value = <<>>

\* C9: index_conversations partitions the user's messages into chunks:
\* every message of every conversation of the user is in exactly one
\* chunk; a chunk holds 1 to 3 consecutive messages of one conversation
\* in created_at ascending order; only the last chunk of a conversation
\* may hold fewer than 3; a conversation without messages yields no
\* chunk; the i-th metadata entry names the conversation and the first
\* and last message ids of the i-th chunk.
C9_ChunkPartition ==
    \A i \in IndexCalls :
        LET ids == calls[i].message_ids
            metadata == calls[i].metadata
            Mine == {db.messages[m].id : m \in MessagesOfUser(UserOf(calls[i]))}
            Places(id) == {<<k, p>> \in (DOMAIN ids) \X (1..ChunkSize) :
                              p \in DOMAIN ids[k] /\ ids[k][p] = id}
            Conv(k) == metadata[k].conversation_id
        IN  /\ Len(calls[i].chunks) = Len(ids) /\ Len(metadata) = Len(ids)
            /\ \A id \in Mine : Cardinality(Places(id)) = 1
            /\ \A k \in DOMAIN ids :
                  /\ Len(ids[k]) \in 1..ChunkSize
                  /\ \A p \in DOMAIN ids[k] :
                        /\ ids[k][p] \in Mine
                        /\ MessageWithId(ids[k][p]).conversation_id = Conv(k)
                  /\ \A p \in 1..(Len(ids[k]) - 1) :
                        MessageWithId(ids[k][p]).created_at
                            <= MessageWithId(ids[k][p + 1]).created_at
                  \* consecutive: no other message of the conversation
                  \* lies strictly between two of the chunk
                  /\ \A m \in DOMAIN db.messages :
                        (/\ db.messages[m].conversation_id = Conv(k)
                         /\ db.messages[m].created_at
                                > MessageWithId(ids[k][1]).created_at
                         /\ db.messages[m].created_at
                                < MessageWithId(ids[k][Len(ids[k])]).created_at)
                            => \E p \in DOMAIN ids[k] : ids[k][p] = db.messages[m].id
                  /\ Len(ids[k]) < ChunkSize
                        => \A later \in DOMAIN ids : later > k => Conv(later) # Conv(k)
                  /\ metadata[k].first_message_id = ids[k][1]
                  /\ metadata[k].last_message_id = ids[k][Len(ids[k])]
                  /\ \E c \in DOMAIN db.conversations :
                        /\ db.conversations[c].id = Conv(k)
                        /\ db.conversations[c].user_id = UserOf(calls[i])

\* An index of a conversation of four messages, written out of
\* created_at order: a chunk of three and a last chunk of one, next to a
\* conversation of the user that has no message.
C9_Witness ==
    \E i \in IndexCalls :
        /\ Len(calls[i].message_ids) = 2
        /\ Len(calls[i].message_ids[1]) = ChunkSize
        /\ Len(calls[i].message_ids[2]) = 1
        /\ calls[i].metadata[1].conversation_id = calls[i].metadata[2].conversation_id
        /\ calls[i].message_ids[1][1] > calls[i].message_ids[1][2]

TimelineCalls == {i \in DOMAIN calls : calls[i].op = "retrieve_therapeutic_timeline"}

\* The events of one type in a timeline.
EventsOfType(timeline, type) == {e \in DOMAIN timeline : timeline[e].type = type}

\* The rows of a table that belong to the user of the call.
OwnRows(table, i) == {r \in DOMAIN table : table[r].user_id = UserOf(calls[i])}

\* C18: retrieve_therapeutic_timeline returns exactly one event per formal
\* session of the user, one per important memory, one homework_assigned
\* event per homework assignment and one more homework_completed event for
\* exactly the assignments that are completed with a completion date;
\* casual conversations contribute no event; the list is in
\* non-decreasing order of event date.
C18_Timeline ==
    \A i \in TimelineCalls :
        LET timeline == calls[i].value
            formal == {c \in OwnRows(db.conversations, i) :
                          db.conversations[c].is_formal_session}
            memories == OwnRows(db.important_memories, i)
            assignments == OwnRows(db.homework_assignments, i)
            completed == {a \in assignments :
                             /\ db.homework_assignments[a].is_completed
                             /\ db.homework_assignments[a].completion_date # Null}
        IN  /\ calls[i].raised = "none"
            /\ \A c \in formal :
                  Cardinality({e \in EventsOfType(timeline, "formal_session") :
                      timeline[e].details.conversation_id = db.conversations[c].id}) = 1
            /\ Cardinality(EventsOfType(timeline, "formal_session")) = Cardinality(formal)
            /\ Cardinality(EventsOfType(timeline, "important_memory"))
                  = Cardinality(memories)
            /\ \A m \in memories :
                  \E e \in EventsOfType(timeline, "important_memory") :
                      /\ timeline[e].date = db.important_memories[m].created_at
                      /\ timeline[e].details.content = db.important_memories[m].content
            /\ \A a \in assignments :
                  /\ Cardinality({e \in EventsOfType(timeline, "homework_assigned") :
                        timeline[e].details.homework_id = db.homework_assignments[a].id}) = 1
                  /\ Cardinality({e \in EventsOfType(timeline, "homework_completed") :
                        timeline[e].details.homework_id = db.homework_assignments[a].id})
                        = (IF a \in completed THEN 1 ELSE 0)
            /\ Cardinality(EventsOfType(timeline, "homework_assigned"))
                  = Cardinality(assignments)
            /\ Cardinality(EventsOfType(timeline, "homework_completed"))
                  = Cardinality(completed)
            /\ Len(timeline) = Cardinality(formal) + Cardinality(memories)
                                + Cardinality(assignments) + Cardinality(completed)
            /\ \A e \in 1..(Len(timeline) - 1) : timeline[e].date <= timeline[e + 1].date

\* A timeline of a user who has a formal session, a casual conversation, a
\* memory and a completed assignment: four events, the completion last,
\* and the events are not in the order they were collected in.
C18_Witness ==
    \E i \in TimelineCalls :
        /\ \E c \in OwnRows(db.conversations, i) : ~db.conversations[c].is_formal_session
        /\ Len(calls[i].value) = 4
        /\ calls[i].value[4].type = "homework_completed"
        /\ calls[i].value[1].type # "formal_session"

----------------------------------------------------------------------------
(* Properties of the conversation store.                                   *)

\* The step serves a request.
RequestServed == budget' # budget

\* The step serves a request of the given kind on the conversation, made
\* by the user the conversation belongs to.
OwnerRequest(op, c) ==
    /\ RequestServed
    /\ call'.val.op = op
    /\ call'.val.conversation_id = db.conversations[c].id
    /\ call'.val.user_id = db.conversations[c].user_id

\* What the two endpoints owe an ended conversation in a step.
RejectedWhenEnded(c) ==
    /\ OwnerRequest("create_message", c)
          => /\ outcome'.val.status = 400
             /\ db'.messages = db.messages
    /\ OwnerRequest("end_conversation", c)
          => /\ outcome'.val.status = 400
             /\ db' = db

C20_SessionNumberOnlyFormal ==
    \A c \in DOMAIN db.conversations :
        db.conversations[c].session_number.some
            <=> db.conversations[c].is_formal_session

\* C20, the part the code keeps: every formal session has a session
\* number, and a conversation started through the voice service has one
\* only if it is formal.
C20_FormalHasNumber ==
    /\ \A c \in DOMAIN db.conversations :
          db.conversations[c].is_formal_session
              => db.conversations[c].session_number.some
    /\ (call # Null /\ call.val.op = "start_voice_conversation"
                    /\ outcome.val.status = 201)
          => \E c \in DOMAIN db.conversations :
                /\ db.conversations[c].id = call.val.conversation_id
                /\ db.conversations[c].session_number.some
                      <=> db.conversations[c].is_formal_session

\* C20, the failing case: create_conversation was asked for a casual
\* conversation with session number 7, and stored it so.
C20_CasualWithNumber ==
    /\ call # Null
    /\ call.val.op = "create_conversation"
    /\ ~call.val.conversation_in.is_formal_session
    /\ \E c \in DOMAIN db.conversations :
          /\ db.conversations[c].id = call.val.conversation_id
          /\ ~db.conversations[c].is_formal_session
          /\ db.conversations[c].session_number = Some(7)

----------------------------------------------------------------------------
(* Properties of create_message, stated over the request just served and  *)
(* its response.                                                           *)

\* A create_message request that was accepted.
Posted ==
    /\ call # Null /\ outcome # Null
    /\ call.val.op = "create_message"
    /\ outcome.val.status = 201

\* An accepted message of the user.
UserPosted == Posted /\ call.val.message_in.is_from_user

\* An accepted message of the user in which no crisis was detected: the
\* extraction step ran on it.
QuietPosted == UserPosted /\ ~outcome.val.detection.val.is_crisis

\* The memories of the store before a step are still there after it.
MemoriesKept ==
    /\ Len(db'.important_memories) >= Len(db.important_memories)
    /\ SubSeq(db'.important_memories, 1, Len(db.important_memories))
          = db.important_memories

\* The step wrote one memory, owned by the user of the request.
MemoryWritten ==
    /\ Len(db'.important_memories) = Len(db.important_memories) + 1
    /\ db'.important_memories[Len(db'.important_memories)].user_id
          = call'.val.user_id

\* C21, as stated: handling a non-crisis message of the user writes a
\* memory of that user exactly when the extraction returned non-empty
\* content with a score above 0.6, and no request removes a memory.
C21_MemoryIffExtracted ==
    [][/\ MemoriesKept
       /\ (RequestServed /\ QuietPosted')
             => (MemoryWritten <=> WorthKeeping(outcome'.val.memory_data))]_vars

\* C21, the part the code keeps: a memory is written only by a non-crisis
\* message of the user whose extraction returned non-empty content with
\* a score above 0.6, never at 0.6 or below nor when the extraction
\* returned nothing, and no request removes or alters a memory.
C21_MemoryOnlyIfExtracted ==
    [][/\ MemoriesKept
       /\ (RequestServed /\ Len(db'.important_memories) > Len(db.important_memories))
             => (QuietPosted' /\ WorthKeeping(outcome'.val.memory_data))]_vars

\* C21: the extraction returned content with a score of 0.9 and the
\* store holds no memory but the one it held before.
C21_ExtractedNotKept ==
    /\ QuietPosted
    /\ WorthKeeping(outcome.val.memory_data)
    /\ db.important_memories = SeededStore.important_memories

\* The message ids of a corpus: those of all its chunks.
CorpusIds(message_ids) ==
    UNION {Range(message_ids[c]) : c \in DOMAIN message_ids}

\* The ids of the messages a store holds in the conversations of a user.
MessagesOf(database, user_id) ==
    {database.messages[m].id : m \in
        {m \in DOMAIN database.messages :
            \E c \in DOMAIN database.conversations :
                /\ database.conversations[c].id = database.messages[m].conversation_id
                /\ database.conversations[c].user_id = user_id}}

\* The step served a retrieval on the service instance.
RetrievalServed == calls' # calls

\* The step served a request of the handlers.
HandlerServed == clock' # clock

\* C22: a retrieval that returns searched exactly the messages the store
\* holds for the user when it is called, on an instance that has served a
\* retrieval as on a new one; the retrieval inside create_message searches
\* the messages the store held before the request and the message just
\* posted with them.
C22_IndexRebuilt ==
    [][/\ (RetrievalServed /\ calls'[Len(calls')].raised = "none")
             => CorpusIds(calls'[Len(calls')].message_ids)
                  = MessagesOf(db', UserOf(calls'[Len(calls')]))
       /\ (HandlerServed /\ QuietPosted')
             => CorpusIds(outcome'.val.corpus.val)
                  = MessagesOf(db, call'.val.user_id) \cup {outcome'.val.message_id}]_vars

\* C22: the instance served a retrieval, the user posted a message, and
\* the instance served the retrieval again over a larger corpus.
C22_Witness ==
    /\ Len(calls) = 2
    /\ calls[1].service = calls[2].service
    /\ calls[1].raised = "none" /\ calls[2].raised = "none"
    /\ QuietPosted
    /\ outcome.val.message_id \in CorpusIds(outcome.val.corpus.val)
    /\ outcome.val.message_id \in CorpusIds(calls[2].message_ids)
    /\ outcome.val.message_id \notin CorpusIds(calls[1].message_ids)

\* The rows a step appended to the messages table.
NewMessages == SubSeq(db'.messages, Len(db.messages) + 1, Len(db'.messages))

\* The step appended rows and left those before them alone.
MessagesAppended ==
    /\ Len(db'.messages) >= Len(db.messages)
    /\ SubSeq(db'.messages, 1, Len(db.messages)) = db.messages

\* The text the coach answers a detected crisis with.
CrisisText(detection) ==
    get_crisis_response(CrisisDetector(Null, Null), detection.categories,
                        Some(detection.analysis)).response
    \o format_resources(detection.resources)

\* C23: an accepted message of the user is followed by exactly one
\* message of the coach in the same conversation: on a detected crisis
\* the crisis response with the formatted resources, without a call of
\* the language model and with one crisis event at the risk level of the
\* analysis; otherwise the reply of the language model and no crisis
\* event.  An accepted message of the coach is stored alone, with no
\* detection, no reply and no event.
C23_OneCoachMessage ==
    [][(HandlerServed /\ Posted') =>
        /\ MessagesAppended
        /\ NewMessages[1].id = outcome'.val.message_id
        /\ NewMessages[1].conversation_id = call'.val.conversation_id
        /\ NewMessages[1].is_from_user = call'.val.message_in.is_from_user
        /\ NewMessages[1].content = call'.val.message_in.content
        /\ IF call'.val.message_in.is_from_user
           THEN /\ Len(NewMessages) = 2
                /\ NewMessages[2].conversation_id = call'.val.conversation_id
                /\ ~NewMessages[2].is_from_user
                /\ outcome'.val.ai_response = Some(NewMessages[2].id)
                /\ IF outcome'.val.detection.val.is_crisis
                   THEN /\ NewMessages[2].content
                             = CrisisText(outcome'.val.detection.val)
                        /\ ~outcome'.val.llm_called
                        /\ outcome'.val.crisis_event.some
                        /\ outcome'.val.crisis_event.val.crisis_level
                             = outcome'.val.detection.val.analysis.risk_level
                        /\ outcome'.val.crisis_event.val.message_id
                             = outcome'.val.message_id
                   ELSE /\ NewMessages[2].content \in LLMReplies
                        /\ outcome'.val.llm_called
                        /\ outcome'.val.crisis_event = Null
           ELSE /\ Len(NewMessages) = 1
                /\ outcome'.val.detection = Null
                /\ ~outcome'.val.llm_called
                /\ outcome'.val.crisis_event = Null
                /\ outcome'.val.ai_response = Null]_vars

\* C23: a crisis answered after an ordinary exchange: four messages in
\* the conversation, the last one the crisis response.
C23_Witness ==
    /\ UserPosted
    /\ outcome.val.detection.val.is_crisis
    /\ outcome.val.crisis_event.some
    /\ Len(db.messages) = 4
    /\ db.messages[2].content \in LLMReplies
    /\ db.messages[4].content = CrisisText(outcome.val.detection.val)

\* The history create_message hands to the detector for the message of
\* the request just served.
PostedHistory ==
    Some(EarlierUserContents(db, call.val.conversation_id, outcome.val.message_id))

\* The history raises the risk: three crisis keywords over the recent
\* entries and the lower-cased message, or negative mood words that
\* outweigh the positive ones.
HistoryEscalates(self, message, message_history) ==
    /\ HistoryGiven(message_history)
    /\ LET full_text == FullText(Lower(message), message_history)
           neg_count == CountIn(mood_words_neg, full_text)
           pos_count == CountIn(mood_words_pos, full_text)
       IN  \/ CountIn(AllCrisisWords(self.crisis_keywords), full_text)
                >= DensityThreshold
           \/ (neg_count > 3 /\ neg_count > pos_count * 2)

\* Categories were found in the posted message, none of them by an
\* indirect pattern or a word combination.
LexicalOnly ==
    /\ UserPosted
    /\ Len(outcome.val.detection.val.categories) > 0
    /\ outcome.val.detection.val.analysis.pattern_matches = <<>>
    /\ outcome.val.detection.val.analysis.context_categories = <<>>

LexicalEscalated ==
    /\ LexicalOnly
    /\ HistoryEscalates(detector, call.val.message_in.content, PostedHistory)
    /\ outcome.val.crisis_event.val.crisis_level = "medium"

----------------------------------------------------------------------------
(* Properties of the voice endpoints.                                      *)

\* The step served an end_voice_conversation request.
VoiceEndServed ==
    /\ HandlerServed
    /\ call'.val.op = "end_voice_conversation"

\* Before the step the user of the request had an active service whose
\* current conversation is the one the request names.
VoiceEndMatches ==
    /\ call'.val.user_id \in DOMAIN active_services
    /\ active_services[call'.val.user_id].current_conversation
          = call'.val.conversation_id

\* The conversation of the request is ended after the step and the
\* user's service is gone.
VoiceEnded ==
    /\ \E c \in DOMAIN db'.conversations :
          /\ db'.conversations[c].id = call'.val.conversation_id
          /\ db'.conversations[c].ended_at.some
    /\ call'.val.user_id \notin DOMAIN active_services'

\* Without a service the answer is 404, with another id 400, and
\* neither changes the services or the store.
VoiceEndRejected ==
    /\ call'.val.user_id \notin DOMAIN active_services
          => outcome'.val.status = 404
    /\ (call'.val.user_id \in DOMAIN active_services /\ ~VoiceEndMatches)
          => outcome'.val.status = 400
    /\ ~VoiceEndMatches => (active_services' = active_services /\ db' = db)

----------------------------------------------------------------------------
(* Further properties of the crisis detector.                              *)

\* C27: when no category is detected no crisis is reported and no
\* resources are returned, whatever the risk tier: the history rules
\* raise the analysis to medium (confidence 0.6, or 0.65 from the mood
\* rule) without adding a category, and without them it stays at low
\* and 0.0.
C27_RiskWithoutCrisis ==
    (Returned /\ Len(outcome.val.categories) = 0)
        => /\ ~outcome.val.is_crisis
           /\ outcome.val.resources = <<>>
           /\ outcome.val.analysis.context_categories = <<>>
           /\ IF HistoryEscalates(detector, call.val.message,
                                  call.val.message_history)
              THEN /\ outcome.val.analysis.risk_level = "medium"
                   /\ outcome.val.analysis.confidence_score \in {60, 65}
              ELSE /\ outcome.val.analysis.risk_level = "low"
                   /\ outcome.val.analysis.confidence_score = 0

\* C27: no crisis reported at risk_level medium and confidence 0.65.
C27_Witness ==
    /\ Returned
    /\ ~outcome.val.is_crisis
    /\ outcome.val.resources = <<>>
    /\ outcome.val.analysis.risk_level = "medium"
    /\ outcome.val.analysis.confidence_score = 65

\* No crisis reported at risk_level medium and confidence 0.6.
MediumByDensity ==
    /\ Returned
    /\ ~outcome.val.is_crisis
    /\ outcome.val.analysis.risk_level = "medium"
    /\ outcome.val.analysis.confidence_score = 60

\* C28: severe_anxiety is never among the context categories of an
\* analysis, and the same message and history analysed under two
\* profiles that differ in the anxiety score alone give the same result.
C28_AnxietyScoreIgnored ==
    /\ \A i \in DOMAIN calls :
          /\ calls[i].result.raised = "none"
          /\ ~InSeq("severe_anxiety", calls[i].result.analysis.context_categories)
    /\ Len(calls) = 2 => calls[1].result = calls[2].result

\* C28: a message with keywords of severe anxiety, analysed under an
\* anxiety score of 3 and of 10 with the same result.
C28_Witness ==
    /\ Len(calls) = 2
    /\ calls[1].anxiety_score = Some(Some(3))
    /\ calls[2].anxiety_score = Some(Some(10))
    /\ InSeq("severe_anxiety", calls[1].result.categories)
    /\ calls[1].result = calls[2].result

----------------------------------------------------------------------------
(* Properties of the requests that run side by side.                       *)

\* The conversation with the id is there and has no ended_at.
IsOpen(conversation_id) ==
    /\ FindConversation(db, conversation_id).some
    /\ ~db.conversations[FindConversation(db, conversation_id).val].ended_at.some

\* The threads that hold a voice service with a conversation started and
\* have yet to put it into active_services.
Starting(user_id) ==
    {t \in DOMAIN threads :
        /\ At(t, "start_voice_conversation", "store")
        /\ threads[t].user_id = user_id}

\* The voice services of a user with a current conversation: the one in
\* active_services and those about to be put there.
ServicesOf(user_id) ==
    Cardinality(Starting(user_id))
    + (IF user_id \in DOMAIN active_services THEN 1 ELSE 0)

\* A start_voice_conversation request took its first step.
VoiceChecked(t) ==
    /\ At(t, "start_voice_conversation", "check")
    /\ threads'[t] # threads[t]

\* C24 (as stated): a user has at most one voice service with a
\* conversation, also while start requests of the user run side by side,
\* and the conversation of every entry in active_services is open.
C24_OneActiveVoiceService ==
    /\ \A user_id \in Users : ServicesOf(user_id) <= 1
    /\ \A user_id \in DOMAIN active_services :
          IsOpen(active_services[user_id].current_conversation)

\* C24 (the part the code keeps): a start request whose look into
\* active_services finds an entry of its user is answered with 400 and
\* writes neither a conversation nor a service.
C24_StartWithEntryRejected ==
    [][\A t \in DOMAIN threads :
          VoiceChecked(t) /\ threads[t].user_id \in DOMAIN active_services
          => /\ threads'[t].pc = "done"
             /\ threads'[t].status = 400
             /\ db' = db
             /\ active_services' = active_services]_vars

\* Two start requests of one user both passed the look: the first has put
\* its service into the dict and the second holds another, each with an
\* open conversation of its own.
C24_TwoServicesOfOneUser ==
    \E user_id \in DOMAIN active_services : \E t \in Starting(user_id) :
        /\ threads[t].conversation_id # active_services[user_id].current_conversation
        /\ IsOpen(threads[t].conversation_id)
        /\ IsOpen(active_services[user_id].current_conversation)

\* The conversation of an entry was ended over PUT /conversations/{id}/end
\* and the entry is still there.
EntryOfEndedConversation ==
    \E user_id \in DOMAIN active_services :
        ~IsOpen(active_services[user_id].current_conversation)

\* The conversation with the id has its ended_at set.
IsEnded(database, conversation_id) ==
    /\ FindConversation(database, conversation_id).some
    /\ database.conversations[FindConversation(database, conversation_id).val].ended_at.some

\* C29 (as stated): whatever the interleaving of the requests, a step
\* that commits a message, the user's or the coach's, commits it to a
\* conversation whose ended_at is not set.
C29_NoMessageAfterEnd ==
    [][\A i \in DOMAIN NewMessages :
          ~IsEnded(db, NewMessages[i].conversation_id)]_vars

\* C29 (the part the code keeps): a create_message request that reads the
\* conversation once its ended_at is set is answered with 400 and commits
\* nothing.
C29_ReadAfterEndRejected ==
    [][\A t \in DOMAIN threads :
          /\ At(t, "create_message", "check")
          /\ threads'[t] # threads[t]
          /\ IsEnded(db, threads[t].conversation_id)
          /\ db.conversations[FindConversation(db, threads[t].conversation_id).val].user_id
                = threads[t].user_id
          => /\ threads'[t].pc = "done"
             /\ threads'[t].status = 400
             /\ db' = db]_vars

\* A request that passed the checks committed a message of the coach
\* after end_conversation had set ended_at.
C29_MessageAfterEnd ==
    \E i \in DOMAIN db.messages :
        /\ ~db.messages[i].is_from_user
        /\ IsEnded(db, db.messages[i].conversation_id)
        /\ db.messages[i].created_at
              > db.conversations[FindConversation(db,
                    db.messages[i].conversation_id).val].ended_at.val

\* The user's message itself was committed after the end.
UserMessageAfterEnd ==
    \E i \in DOMAIN db.messages :
        /\ db.messages[i].is_from_user
        /\ IsEnded(db, db.messages[i].conversation_id)
        /\ db.messages[i].created_at
              > db.conversations[FindConversation(db,
                    db.messages[i].conversation_id).val].ended_at.val

\* The threads whose request wrote a formal session with a session number
\* the handler counted.
AutoNumbered ==
    {t \in DOMAIN threads :
        /\ threads[t].op \in {"create_conversation", "start_voice_conversation"}
        /\ threads[t].conversation_id # 0
        /\ threads[t].conversation_in.is_formal_session
        /\ \/ threads[t].op = "start_voice_conversation"
           \/ ~NumberGiven(threads[t].conversation_in.session_number)}

\* The row a thread wrote.
RowOf(t) == db.conversations[FindConversation(db, threads[t].conversation_id).val]

\* The formal sessions of the user in the rows before the row.
FormalBefore(row) ==
    Cardinality({i \in DOMAIN db.conversations :
                    /\ db.conversations[i].id < row.id
                    /\ db.conversations[i].user_id = row.user_id
                    /\ db.conversations[i].is_formal_session})

\* C30 (as stated): the formal sessions of one user that were numbered by
\* the handlers have pairwise distinct session numbers.
C30_AutoNumbersDistinct ==
    \A t1, t2 \in AutoNumbered :
        t1 # t2 /\ threads[t1].user_id = threads[t2].user_id
        => RowOf(t1).session_number # RowOf(t2).session_number

\* C30 (the part the code keeps): a counted session number is the one the
\* handler read, one more than a count of the user's formal sessions, and
\* so at least 1 and at most one more than the formal sessions of the
\* user in the rows before its own.
C30_NumberIsCountPlusOne ==
    \A t \in AutoNumbered :
        /\ RowOf(t).session_number = threads[t].session_number
        /\ RowOf(t).session_number.some
        /\ RowOf(t).session_number.val >= 1
        /\ RowOf(t).session_number.val <= FormalBefore(RowOf(t)) + 1

\* Two creations of one user counted before either committed: both rows
\* carry the same session number.
C30_SameNumberTwice ==
    \E t1, t2 \in AutoNumbered :
        /\ t1 # t2
        /\ threads[t1].user_id = threads[t2].user_id
        /\ threads[t1].pc = "done" /\ threads[t2].pc = "done"
        /\ RowOf(t1).session_number = RowOf(t2).session_number

\* Two creations of one user that ran one after the other: the numbers
\* differ, and differ from the number the client gave the seeded session.
NumberedInTurn ==
    \E t1, t2 \in AutoNumbered :
        /\ threads[t1].user_id = 1 /\ threads[t2].user_id = 1
        /\ RowOf(t1).session_number = Some(2)
        /\ RowOf(t2).session_number = Some(3)
====
